---- MODULE Spec2Model ----
(***************************************************************************)
(* Verification model of the PC automation agent (tauri_agent).            *)
(*                                                                         *)
(* The model covers the orchestrator of src-tauri/src/main.rs: the Tauri   *)
(* commands that share AppState (save_api_key, execute_user_command,       *)
(* approve_action, get_history, clear_history, get_history_analysis) and   *)
(* the approve_action loop, cut at its suspension points (every .await of  *)
(* a mode probe, an observation, a driver execution or a model request).   *)
(* The code between two suspension points is one action.                   *)
(*                                                                         *)
(* Strings whose content the code inspects (goal, window title, URL, node  *)
(* names, targets, error texts) are tuples of one-character strings.       *)
(* Option<T> is <<>> (None) or <<v>> (Some(v)).                            *)
(***************************************************************************)
EXTENDS Integers, Sequences, FiniteSets, TLC

\* ------------------------------------------------------------------------
\* Program constants (main.rs, approve_action)
\* ------------------------------------------------------------------------
max_steps == 20
max_retries_per_step == 5
auto_complete_threshold == 3

\* ------------------------------------------------------------------------
\* Bounds of the explored environment
\* ------------------------------------------------------------------------
\* things that go wrong in one behaviour: a target that does not resolve, a
\* failed observation, a failed model request, the CDP endpoint appearing or
\* disappearing on its own
MaxIncidents == 1
\* successful actions after which the screen shows no change
MaxStalls == 3
\* next-action prompts the model answers with a primitive action before it
\* signals completion
MaxPlan == 3
\* the same under SpecUI, and the clear_history invocations
MaxUIPlan == 4
MaxClears == 1
MaxGoals == 2
MaxSends == 2
MaxEvents == 1
MaxText == 3
MaxCoord == 2
MaxHistory == 3
MaxLimit == 5
MaxRepeat == 14
MaxRecent == 6
MaxNodes == 102
MaxCdpNodes == 2
MaxModifiers == 2

None == <<>>
Some(v) == <<v>>
IsSome(o) == o # <<>>
Unwrap(o) == o[1]

\* serde_json::Value
JNull == <<"null">>
JStr(s) == <<"str", s>>
JBool(b) == <<"bool", b>>
JNum(n) == <<"num", n>>
JArr(items) == <<"arr", items>>
JObj(fields) == <<"obj", fields>>
as_str(v) == IF v[1] = "str" THEN Some(v[2]) ELSE None
as_array(v) == IF v[1] = "arr" THEN Some(v[2]) ELSE None
as_object(v) == IF v[1] = "obj" THEN Some(v[2]) ELSE None
get(fields, key) == IF key \in DOMAIN fields THEN Some(fields[key]) ELSE None

\* ------------------------------------------------------------------------
\* Text
\* ------------------------------------------------------------------------
UpperChars == <<"A","B","C","D","E","F","G","H","I","J","K","L","M",
                "N","O","P","Q","R","S","T","U","V","W","X","Y","Z">>
LowerChars == <<"a","b","c","d","e","f","g","h","i","j","k","l","m",
                "n","o","p","q","r","s","t","u","v","w","x","y","z">>

char_to_lowercase(c) ==
    IF \E i \in DOMAIN UpperChars : UpperChars[i] = c
    THEN LowerChars[CHOOSE i \in DOMAIN UpperChars : UpperChars[i] = c]
    ELSE c

to_lowercase(s) == [i \in DOMAIN s |-> char_to_lowercase(s[i])]

\* str::len: the bytes of s in UTF-8. A string is the sequence of its code
\* points; a code point outside ASCII is written by its name: U+00E9 takes
\* 2 bytes, U+20AC takes 3, U+1F600 takes 4
RECURSIVE utf8_len(_)
utf8_len(s) ==
    IF s = <<>> THEN 0
    ELSE (CASE Head(s) = "U+00E9" -> 2
            [] Head(s) = "U+20AC" -> 3
            [] Head(s) = "U+1F600" -> 4
            [] OTHER -> 1) + utf8_len(Tail(s))

\* a variant of contains that finds nothing: C27_ListingIsCappedPreorderFilter
\* must tell it apart
contains_never(s, p) == FALSE

contains(s, p) ==
    \E i \in 0..(Len(s) - Len(p)) : SubSeq(s, i + 1, i + Len(p)) = p

RECURSIVE split_from(_, _, _)
split_from(s, i, word) ==
    IF i > Len(s)
    THEN IF word = <<>> THEN <<>> ELSE <<word>>
    ELSE IF s[i] = " "
         THEN (IF word = <<>> THEN <<>> ELSE <<word>>) \o split_from(s, i + 1, <<>>)
         ELSE split_from(s, i + 1, Append(word, s[i]))

split_whitespace(s) == split_from(s, 1, <<>>)

\* main.rs, check_goal_in_a11y: the stop words
stop_words ==
    { <<"t","h","e">>,
      <<"a">>,
      <<"a","n">>,
      <<"i","n">>,
      <<"o","n">>,
      <<"f","o","r">>,
      <<"t","o">>,
      <<"a","n","d">>,
      <<"o","r">>,
      <<"o","f">>,
      <<"w","i","t","h">>,
      <<"o","p","e","n">>,
      <<"s","e","a","r","c","h">>,
      <<"f","i","n","d">>,
      <<"g","o">>,
      <<"c","l","i","c","k">>,
      <<"t","y","p","e">>,
      <<"p","r","e","s","s">>,
      <<"e","n","t","e","r">>,
      <<"c","h","r","o","m","e">>,
      <<"b","r","o","w","s","e","r">>,
      <<"g","o","o","g","l","e">> }

\* what the user, the screen and the model supply: the goal, window titles,
\* URLs, node names, a target and a reasoning
Input ==
    [ GoalFindCats |-> <<"f","i","n","d"," ","C","a","t","s">>,
      TitleDesktop |-> <<"D","e","s","k","t","o","p">>,
      TitleNotes |-> <<"c","a","t","s",".","t","x","t">>,
      TitleNewTab |-> <<"N","e","w"," ","T","a","b">>,
      TitleResults |-> <<"C","a","t","s">>,
      UrlBlank |-> <<"a","b","o","u","t",":","b","l","a","n","k">>,
      UrlResults |-> <<"q","=","c","a","t","s">>,
      NameGo |-> <<"G","o">>,
      NameStart |-> <<"S","t","a","r","t">>,
      TargetNameGo |-> <<"n","a","m","e",":","G","o">>,
      Ok |-> <<"o","k">> ]

\* error texts of the desktop driver
DesktopError ==
    [ NotFoundByName |-> <<"E","l","e","m","e","n","t"," ","n","o","t"," ","f","o","u","n","d",
                           " ","b","y"," ","n","a","m","e",":"," ","G","o">>,
      NotFoundByNamePrefix |-> <<"E","l","e","m","e","n","t"," ","n","o","t"," ","f","o","u","n","d"," ","b","y"," ","n","a","m","e",":"," ">>,
      NotFoundPrefix |-> <<"E","l","e","m","e","n","t"," ","n","o","t"," ","f","o","u","n","d",":"," ">>,
      NoBounds |-> <<"E","l","e","m","e","n","t"," ","h","a","s"," ","n","o"," ","b","o","u","n","d","s">>,
      NoTextParam |-> <<"N","o"," ","t","e","x","t"," ","p","a","r","a","m">>,
      NavigateDesktop |-> <<"'","n","a","v","i","g","a","t","e","'"," ","a","c","t","i","o","n",
                            " ","i","s"," ","o","n","l","y"," ","a","v","a","i","l","a","b","l",
                            "e"," ","i","n"," ","b","r","o","w","s","e","r"," ","m","o","d","e",
                            "."," ","U","s","e"," ","C","h","r","o","m","e"," ","w","i","t","h",
                            " ","d","e","b","u","g","g","i","n","g"," ","p","o","r","t",".">> ]

\* error texts of the browser driver
BrowserError ==
    [ NotFound |-> <<"N","o","t"," ","f","o","u","n","d">>,
      AxNotFound |-> <<"A","X"," ","n","o","t"," ","f","o","u","n","d">>,
      XPathNotFound |-> <<"X","P","a","t","h"," ","n","o","t"," ","f","o","u","n","d">>,
      NoSearchId |-> <<"N","o"," ","s","e","a","r","c","h","I","d">>,
      NoNodeFound |-> <<"N","o"," ","n","o","d","e"," ","f","o","u","n","d">>,
      SendFailed |-> <<"C","D","P",":"," ","e","r","r","o","r">>,
      NoBox |-> <<"N","o"," ","b","o","x">>,
      NoText |-> <<"N","o"," ","t","e","x","t">>,
      UnknownLaunchBrowser |-> <<"U","n","k","n","o","w","n"," ","a","c","t","i","o","n",":",
                                 " ","l","a","u","n","c","h","_","b","r","o","w","s","e","r">>,
      UnknownComplete |-> <<"U","n","k","n","o","w","n"," ","a","c","t","i","o","n",":"," ","c",
                            "o","m","p","l","e","t","e">> ]

\* texts the orchestrator formats into history entries
Text ==
    [ Incomplete |-> <<"[","I","N","C","O","M","P","L","E","T","E","]"," ","L","L","M"," ","d",
                       "i","d"," ","n","o","t"," ","s","i","g","n","a","l"," ","c","o","m","p",
                       "l","e","t","i","o","n",","," ","g","o","a","l"," ","k","e","y","w","o",
                       "r","d","s"," ","n","o","t"," ","f","o","u","n","d"," ","i","n"," ","a",
                       "1","1","y">>,
      Desktop |-> <<"d","e","s","k","t","o","p">>,
      Browser |-> <<"b","r","o","w","s","e","r">>,
      GoalCompleted |-> <<"G","o","a","l"," ","c","o","m","p","l","e","t","e","d">>,
      SmartComplete |-> <<"s","m","a","r","t","_","c","o","m","p","l","e","t","e">>,
      AutoComplete |-> <<"a","u","t","o","_","c","o","m","p","l","e","t","e">>,
      After |-> <<"]"," ","A","f","t","e","r"," ">>,
      Steps |-> <<" ","s","t","e","p","s"," ","-"," ">>,
      KeywordsFound |-> <<"g","o","a","l"," ","k","e","y","w","o","r","d","s"," ","f","o","u",
                          "n","d"," ","i","n"," ","a","1","1","y">>,
      KeywordsMissing |-> <<"L","L","M"," ","f","a","i","l","e","d"," ","t","o"," ","s","i","g",
                            "n","a","l",","," ","k","e","y","w","o","r","d","s"," ","n","o","t",
                            " ","f","o","u","n","d">>,
      ModeOpen |-> <<" ","[","M","O","D","E",":"," ">>,
      Arrow |-> <<" ","-",">"," ">>,
      Close |-> <<"]">>,
      Colon |-> <<":"," ">>,
      StepsGoal |-> <<" ","s","t","e","p","s",","," ","g","o","a","l","_","i","n","_","a","1",
                      "1","y","=">>,
      True |-> <<"t","r","u","e">>,
      False |-> <<"f","a","l","s","e">>,
      GoalDetected |-> <<"g","o","a","l","_","d","e","t","e","c","t","e","d">>,
      ThresholdReached |-> <<"t","h","r","e","s","h","o","l","d","_","r","e","a","c","h","e",
                             "d">> ]

DigitChars == <<"0","1","2","3","4","5","6","7","8","9">>
char_to_uppercase(c) ==
    IF \E i \in DOMAIN LowerChars : LowerChars[i] = c
    THEN UpperChars[CHOOSE i \in DOMAIN LowerChars : LowerChars[i] = c]
    ELSE c

to_uppercase(s) == [i \in DOMAIN s |-> char_to_uppercase(s[i])]

\* format!("{}", n) of an unsigned number
RECURSIVE to_string(_)
to_string(n) ==
    IF n < 10 THEN <<DigitChars[n + 1]>>
    ELSE to_string(n \div 10) \o <<DigitChars[(n % 10) + 1]>>

\* ------------------------------------------------------------------------
\* main.rs, check_goal_in_a11y
\* ------------------------------------------------------------------------
RECURSIVE collect_names(_, _)
RECURSIVE collect_names_each(_, _, _)

\* the two for loops of collect_names, over the items of an array
collect_names_each(items, i, names) ==
    IF i > Len(items) THEN names
    ELSE collect_names_each(items, i + 1, collect_names(items[i], names))

collect_names(tree, names) ==
    IF IsSome(as_object(tree))
    THEN LET obj == Unwrap(as_object(tree))
             name == IF IsSome(get(obj, "name")) THEN as_str(Unwrap(get(obj, "name"))) ELSE None
             named == IF IsSome(name) /\ Unwrap(name) # <<>>
                      THEN names \o <<" ">> \o to_lowercase(Unwrap(name))
                      ELSE names
             children == IF IsSome(get(obj, "children"))
                         THEN as_array(Unwrap(get(obj, "children")))
                         ELSE None
         IN  IF IsSome(children) THEN collect_names_each(Unwrap(children), 1, named) ELSE named
    ELSE IF IsSome(as_array(tree))
         THEN collect_names_each(Unwrap(as_array(tree)), 1, names)
         ELSE names

goal_keywords(goal) ==
    SelectSeq(split_whitespace(to_lowercase(goal)),
              LAMBDA w : utf8_len(w) > 2 /\ w \notin stop_words)

searchable_text(state) ==
    LET window == to_lowercase(state.active_window)
        with_url == IF IsSome(state.url)
                    THEN window \o <<" ">> \o to_lowercase(Unwrap(state.url))
                    ELSE window
    IN  collect_names(state.accessibility_tree, with_url)

check_goal_in_a11y(goal, state) ==
    LET keywords == goal_keywords(goal)
    IN  IF keywords = <<>> THEN FALSE
        ELSE \E k \in DOMAIN keywords : contains(searchable_text(state), keywords[k])

\* ------------------------------------------------------------------------
\* The machine the agent drives: whether the CDP endpoint answers (chrome)
\* and which of two screens is shown (page)
\* ------------------------------------------------------------------------
\* main.rs, detect_automation_mode: the probe of the CDP endpoint
detect_automation_mode(chrome_up) == IF chrome_up THEN "browser" ELSE "desktop"

ModeText(mode) == IF mode = "browser" THEN Text.Browser ELSE Text.Desktop

AXNode(node_id, role, name, children) ==
    JObj([node_id |-> JStr(node_id), role |-> JStr(role), name |-> JStr(name),
          focusable |-> JBool(TRUE), children |-> JArr(children)])

\* main.rs, get_desktop_state_sync: the ExecutionState of the desktop driver
get_desktop_state(p) ==
    [accessibility_tree |-> JArr(<<AXNode(<<"1">>, <<"B","u","t","t","o","n">>, Input.NameStart, <<>>)>>),
     active_window |-> IF p = 1 THEN Input.TitleNotes ELSE Input.TitleDesktop,
     url |-> None]

\* main.rs, get_browser_state: the ExecutionState of the browser driver
get_browser_state(p) ==
    [accessibility_tree |-> JArr(<<AXNode(<<"2">>, <<"b","u","t","t","o","n">>, Input.NameGo, <<>>)>>),
     active_window |-> IF p = 1 THEN Input.TitleResults ELSE Input.TitleNewTab,
     url |-> Some(IF p = 1 THEN Input.UrlResults ELSE Input.UrlBlank)]

\* main.rs, get_current_state_auto, when the driver answers
get_current_state_auto(chrome_up, p) ==
    IF detect_automation_mode(chrome_up) = "browser"
    THEN get_browser_state(p)
    ELSE get_desktop_state(p)

NoState == [accessibility_tree |-> JNull, active_window |-> <<>>, url |-> None]

\* ------------------------------------------------------------------------
\* Actions (main.rs, ActionCommand) and what the model may return
\* ------------------------------------------------------------------------
ActionCommand(action_type, target, params, reasoning) ==
    [action_type |-> action_type, target |-> target, params |-> params, reasoning |-> reasoning]

Click == ActionCommand("click", JStr(Input.TargetNameGo), None, Some(Input.Ok))
LaunchBrowser == ActionCommand("launch_browser", JStr(<<>>), None, Some(Input.Ok))
Navigate == ActionCommand("navigate", JStr(<<>>), Some(JObj([url |-> JStr(Input.UrlResults)])), Some(Input.Ok))
Complete == ActionCommand("complete", JStr(<<>>), None, None)

NoAction == ActionCommand("", JNull, None, None)

\* the replies explored per specification. Spec: any of Plan to every
\* prompt. SpecUI: navigate as the goal's first action and to retry prompts
\* (the desktop driver refuses it), click to next-action prompts.
\* SpecBudget: navigate to every prompt, and a plan that outlasts the loop
Replies ==
    [ Plan |-> {Click, LaunchBrowser, Complete},
      UIFirst |-> {Navigate},
      UI |-> {Click},
      UIRetry |-> {Navigate},
      Budget |-> {Navigate} ]
NoPlanLimit == max_steps + 2

\* ------------------------------------------------------------------------
\* Drivers, seen from the orchestrator (windows_ui.rs / chrome_cdp.rs,
\* execute_llm_action): the result of one action in one mode.
\* `found` tells whether the target resolves on the current screen.
\* ------------------------------------------------------------------------
Ok(v) == <<"Ok", v>>
Err(e) == <<"Err", e>>
IsOk(r) == r[1] = "Ok"

desktop_execute_llm_action(action, found) ==
    CASE action.action_type = "click" -> IF found THEN Ok(<<>>) ELSE Err(DesktopError.NotFoundByName)
      [] action.action_type = "launch_browser" -> Ok(<<>>)
      [] action.action_type = "complete" -> Ok(<<>>)
      [] action.action_type = "navigate" -> Err(DesktopError.NavigateDesktop)
      [] OTHER -> Err(<<"U","n","k","n","o","w","n">>)

browser_execute_llm_action(action, found) ==
    CASE action.action_type = "click" -> IF found THEN Ok(<<>>) ELSE Err(BrowserError.NotFound)
      [] action.action_type = "navigate" -> Ok(<<>>)
      [] action.action_type = "launch_browser" -> Err(BrowserError.UnknownLaunchBrowser)
      [] action.action_type = "complete" -> Err(BrowserError.UnknownComplete)
      [] OTHER -> Err(<<"U","n","k","n","o","w","n">>)

\* main.rs, execute_action_auto: probe, then the driver of the probed mode
execute_action_auto(chrome_up, action, found) ==
    IF detect_automation_mode(chrome_up) = "browser"
    THEN browser_execute_llm_action(action, found)
    ELSE desktop_execute_llm_action(action, found)

\* whether the result depends on the screen (a target to resolve)
NeedsTarget(action) == action.action_type = "click"

\* what a successful action does to the machine when the machine responds:
\* <<chrome', page'>>
ActionEffect(action, chrome_up, p) ==
    CASE action.action_type = "click" -> <<chrome_up, 1>>
      [] action.action_type = "navigate" -> <<chrome_up, 1>>
      [] action.action_type = "launch_browser" -> <<TRUE, 0>>
      [] OTHER -> <<chrome_up, p>>

\* ------------------------------------------------------------------------
\* State
\* ------------------------------------------------------------------------
VARIABLES
    api_key,          \* AppState.api_key
    history,          \* AppState.history
    pending_action,   \* AppState.pending_action
    current_goal,     \* AppState.current_goal
    chrome,           \* the machine: the CDP endpoint answers
    page,             \* the machine: the screen shown
    task,             \* the approve_action invocations: locals and position
    euc,              \* the execute_user_command invocation: locals and position
    budget,           \* what the environment may still do in this behaviour
    conn,             \* a ChromeConnection: cmd_id and the two half locks
    ws,               \* the WebSocket of that connection and the Chrome behind it
    sender,           \* the ChromeConnection::send invocations: locals and position
    call              \* a function of the program applied on its own: input and output

\* the orchestrator and its machine
app_vars == <<api_key, history, pending_action, current_goal, chrome, page, task, euc, budget>>

\* a CDP connection and its users
cdp_vars == <<conn, ws, sender>>

vars == <<app_vars, cdp_vars, call>>

\* the slots in which the UI's approve_action invocations run
Runs == {"r1", "r2"}

\* the slots are interchangeable: an invocation takes the first unused one
EarlierRuns(r) == IF r = "r2" THEN {"r1"} ELSE {}

Goals == {Input.GoalFindCats}

\* main.rs, HistoryEntry (the timestamp is left out)
HistoryEntry(step_number, user_input, llm_reasoning, action, success, error, mode, window_context) ==
    [step_number |-> step_number, user_input |-> user_input, llm_reasoning |-> llm_reasoning,
     action |-> action, success |-> success, error |-> error, mode |-> mode,
     window_context |-> window_context, input_tokens |-> None, output_tokens |-> None]

NoResult == [kind |-> "none", in_loop |-> FALSE, loop_iter |-> 0, state |-> NoState, error |-> ""]

\* an approve_action slot in which no invocation runs
IdleTask ==
    [pc |-> "idle", action |-> NoAction, goal |-> <<>>, api_key |-> "",
     current_action |-> NoAction, action_to_try |-> NoAction,
     loop_iter |-> 0, step_number |-> 0, retry_count |-> 0, chunk_index |-> 0,
     consecutive_successes |-> 0, action_succeeded |-> FALSE,
     initial_mode_str |-> "", current_mode_str |-> "", exec_mode |-> "",
     current_state |-> NoState, fresh_state |-> NoState, observed |-> "none",
     e |-> <<>>, request |-> None, result |-> NoResult]

IdleEuc == [pc |-> "idle", command |-> <<>>, cs |-> NoState, history |-> <<>>, result |-> "none"]

\* the program state after main() has built AppState
InitProgram ==
    /\ api_key = None
    /\ history = <<>>
    /\ pending_action = None
    /\ current_goal = None
    /\ chrome = FALSE
    /\ page = 0
    /\ task = [r \in Runs |-> IdleTask]
    /\ euc = IdleEuc

Budget(incidents, stalls, calls, goals, clears, plan) ==
    [incidents |-> incidents, stalls |-> stalls, calls |-> calls, goals |-> goals,
     clears |-> clears, plan |-> plan]

Incident == [budget EXCEPT !.incidents = @ - 1]

\* ------------------------------------------------------------------------
\* The environment's answers
\* ------------------------------------------------------------------------
\* get_current_state_auto().await: the observation, or an error
ObserveResults ==
    {Ok(get_current_state_auto(chrome, page))}
        \cup (IF budget.incidents > 0 THEN {Err("observe")} ELSE {})

\* the model's reply to a next-action prompt: one of acts while its plan
\* lasts, complete after that; or an error
NextResults(acts) ==
    {Ok(a) : a \in (IF budget.plan > 0 THEN acts ELSE {Complete})}
        \cup (IF budget.incidents > 0 THEN {Err("llm")} ELSE {})

\* the model's reply to a retry prompt: one of acts, or an error
RetryResults(acts) ==
    {Ok(a) : a \in acts}
        \cup (IF budget.incidents > 0 THEN {Err("llm")} ELSE {})

\* what the machine shows after a successful action: the action's effect,
\* or no change at all (the driver reported success and nothing happened)
ActionEffects(action) ==
    {ActionEffect(action, chrome, page)}
        \cup (IF budget.stalls > 0 THEN {<<chrome, page>>} ELSE {})

SpendEffect(action, effect, b) ==
    IF effect = ActionEffect(action, chrome, page) THEN b
    ELSE [b EXCEPT !.stalls = @ - 1]

SpendObserve(res) == IF IsOk(res) THEN budget ELSE Incident
SpendNext(res) ==
    IF IsOk(res) THEN [budget EXCEPT !.plan = IF @ > 0 THEN @ - 1 ELSE 0] ELSE Incident
SpendRetry(res) == IF IsOk(res) THEN budget ELSE Incident

\* LLMResponse.input_tokens / output_tokens of a reply
ReplyTokens == 7

\* ------------------------------------------------------------------------
\* UI commands other than approve_action
\* ------------------------------------------------------------------------
\* main.rs, save_api_key
save_api_key ==
    /\ api_key' = Some("key")
    /\ UNCHANGED <<history, pending_action, current_goal, chrome, page, task, euc, budget, cdp_vars, call>>

\* main.rs, execute_user_command, lines 80-89: set the goal, clear the history, start observing
execute_user_command(command) ==
    /\ euc.pc = "idle"
    /\ budget.goals > 0
    /\ budget' = [budget EXCEPT !.goals = @ - 1]
    /\ current_goal' = Some(command)
    /\ history' = <<>>
    /\ euc' = [IdleEuc EXCEPT !.pc = "observe", !.command = command]
    /\ UNCHANGED <<api_key, pending_action, chrome, page, task, cdp_vars, call>>

\* main.rs, execute_user_command, lines 89-101: the observation arrives; read the key and the history
execute_user_command_observed ==
    /\ euc.pc = "observe"
    /\ \E res \in ObserveResults :
        /\ budget' = SpendObserve(res)
        /\ euc' = IF ~IsOk(res) THEN [IdleEuc EXCEPT !.result = "Err"]
                  ELSE IF api_key = None THEN [IdleEuc EXCEPT !.result = "Err"]
                  ELSE [euc EXCEPT !.pc = "llm", !.cs = res[2], !.history = history]
    /\ UNCHANGED <<api_key, history, pending_action, current_goal, chrome, page, task, cdp_vars, call>>

\* main.rs, execute_user_command, lines 101-124: the model's reply becomes the pending action
execute_user_command_reply(acts) ==
    /\ euc.pc = "llm"
    /\ \E res \in NextResults(acts) :
        /\ budget' = SpendNext(res)
        /\ pending_action' = IF IsOk(res) THEN Some(res[2]) ELSE pending_action
        /\ euc' = [IdleEuc EXCEPT !.result = IF IsOk(res) THEN "Ok" ELSE "Err"]
    /\ UNCHANGED <<api_key, history, current_goal, chrome, page, task, cdp_vars, call>>

\* main.rs, get_history: the reply goes to the UI; AppState is only read
get_history ==
    /\ UNCHANGED vars

\* main.rs, clear_history
clear_history ==
    /\ budget.clears > 0
    /\ budget' = [budget EXCEPT !.clears = @ - 1]
    /\ history' = <<>>
    /\ UNCHANGED <<api_key, pending_action, current_goal, chrome, page, task, euc, cdp_vars, call>>

\* main.rs, get_history_analysis: the reply goes to the UI; AppState is only read
get_history_analysis ==
    /\ UNCHANGED vars

\* the CDP endpoint appears (Chrome started by main()'s launcher thread or by
\* the user) or disappears (Chrome closed)
EnvFlip ==
    /\ budget.incidents > 0
    /\ budget' = Incident
    /\ chrome' = ~chrome
    /\ page' = 0
    /\ UNCHANGED <<api_key, history, pending_action, current_goal, task, euc, cdp_vars, call>>

\* ------------------------------------------------------------------------
\* approve_action (main.rs, lines 127-430)
\* ------------------------------------------------------------------------
\* a variant of OkResult that hands back no state: C13_BudgetExit must tell it apart
OkResult_without_state(t, state) ==
    [kind |-> "Ok", in_loop |-> TRUE, loop_iter |-> t.loop_iter, state |-> NoState, error |-> ""]

\* Ok(current_state) / Ok(fresh_state): what a run that ends in the loop returns
OkResult(t, state) ==
    [kind |-> "Ok", in_loop |-> TRUE, loop_iter |-> t.loop_iter, state |-> state, error |-> ""]

ErrResult(t, in_loop, error) ==
    [kind |-> "Err", in_loop |-> in_loop, loop_iter |-> t.loop_iter, state |-> NoState, error |-> error]

\* the invocation returns: its locals are dropped, the slot keeps what it returned
Return(result) == [IdleTask EXCEPT !.result = result]

\* a variant of RetryAllowed that grants one attempt more:
\* C12_AttemptsAndRetryPromptsBounded must tell it apart
RetryAllowed_once_more(retry_count) == retry_count <= max_retries_per_step

\* line 272: Err(e) if retry_count < max_retries_per_step
RetryAllowed(retry_count) == retry_count < max_retries_per_step

\* a variant of AutoCompleteDue that also asks for nothing but successes
\* one step earlier: C8_ThresholdAloneTriggers must tell it apart
AutoCompleteDue_early(action_succeeded, consecutive_successes) ==
    action_succeeded /\ consecutive_successes + 1 >= auto_complete_threshold

\* line 314: action_succeeded && consecutive_successes >= auto_complete_threshold
AutoCompleteDue(action_succeeded, consecutive_successes) ==
    action_succeeded /\ consecutive_successes >= auto_complete_threshold

\* lines 324-334: (completion_type, error_msg)
completion(goal_achieved) ==
    IF goal_achieved THEN <<"smart_complete", None>> ELSE <<"auto_complete", Some(Text.Incomplete)>>

CompletionText(completion_type) ==
    IF completion_type = "smart_complete" THEN Text.SmartComplete ELSE Text.AutoComplete

\* a variant of fresh_or_previous that keeps the previous state whatever the
\* observation returned: C6_FreshUnlessObservationFailed must tell it apart
fresh_or_previous_stale(res, previous) == previous

\* lines 219-228 and 321: the observation, or the previous state when it failed
fresh_or_previous(res, previous) == IF IsOk(res) THEN res[2] ELSE previous

\* lines 245-251: the reasoning of a success entry
success_reasoning(action, mode_changed, initial_mode_str, new_mode_str) ==
    LET reasoning == IF IsSome(action.reasoning) THEN Unwrap(action.reasoning) ELSE <<>>
    IN  IF mode_changed
        THEN reasoning \o Text.ModeOpen \o ModeText(initial_mode_str) \o Text.Arrow
                 \o ModeText(new_mode_str) \o Text.Close
        ELSE reasoning

\* lines 256 and 296: the goal is attached to step 1
step_user_input(step_number, goal) == IF step_number = 1 THEN Some(goal) ELSE None

\* a variant of complete_entry that numbers the entry with the step number
\* the loop computed in its previous iteration:
\* C39_StepNumbersAreConsecutive must tell it apart
complete_entry_stale_step(t, step_number) ==
    HistoryEntry(t.step_number, Some(t.goal),
                 IF IsSome(t.current_action.reasoning)
                 THEN Unwrap(t.current_action.reasoning) ELSE Text.GoalCompleted,
                 t.current_action, TRUE, None, t.current_mode_str,
                 t.current_state.active_window)

\* lines 179-191: the entry of a complete action
complete_entry(t, step_number) ==
    HistoryEntry(step_number, Some(t.goal),
                 IF IsSome(t.current_action.reasoning)
                 THEN Unwrap(t.current_action.reasoning) ELSE Text.GoalCompleted,
                 t.current_action, TRUE, None, t.current_mode_str,
                 t.current_state.active_window)

\* a variant of success_entry that records the mode the loop tracked before
\* the step: C7_EntryModeIsTrackedMode must tell it apart
success_entry_mode_before(t, mode_changed, new_mode_str, mode) ==
    HistoryEntry(t.step_number, step_user_input(t.step_number, t.goal),
                 success_reasoning(t.action_to_try, mode_changed, t.initial_mode_str, new_mode_str),
                 t.action_to_try, TRUE, None, t.current_mode_str, t.fresh_state.active_window)

\* lines 253-265: the entry of a successful step
success_entry(t, mode_changed, new_mode_str, mode) ==
    HistoryEntry(t.step_number, step_user_input(t.step_number, t.goal),
                 success_reasoning(t.action_to_try, mode_changed, t.initial_mode_str, new_mode_str),
                 t.action_to_try, TRUE, None, mode, t.fresh_state.active_window)

\* a variant of failure_entry that records no error text:
\* C23_FailedStepRecordedLoopGoesOn must tell it apart
failure_entry_without_error(t, e) ==
    HistoryEntry(t.step_number, step_user_input(t.step_number, t.goal),
                 IF IsSome(t.action_to_try.reasoning) THEN Unwrap(t.action_to_try.reasoning) ELSE <<>>,
                 t.action_to_try, FALSE, None, t.current_mode_str,
                 t.current_state.active_window)

\* lines 293-305: the entry of a step whose last attempt failed
failure_entry(t, e) ==
    HistoryEntry(t.step_number, step_user_input(t.step_number, t.goal),
                 IF IsSome(t.action_to_try.reasoning) THEN Unwrap(t.action_to_try.reasoning) ELSE <<>>,
                 t.action_to_try, FALSE, Some(e), t.current_mode_str,
                 t.current_state.active_window)

\* lines 337-362: the entry the orchestrator synthesizes at the threshold
auto_complete_entry(t, step_number, goal_achieved, fresh_state) ==
    LET c == completion(goal_achieved)
        steps == to_string(t.consecutive_successes)
    IN  HistoryEntry(step_number, None,
            <<"[">> \o to_uppercase(CompletionText(c[1])) \o Text.After \o steps \o Text.Steps
                \o (IF goal_achieved THEN Text.KeywordsFound ELSE Text.KeywordsMissing),
            ActionCommand(c[1], JNull,
                Some(JObj([reason |-> JStr(IF goal_achieved THEN Text.GoalDetected
                                                             ELSE Text.ThresholdReached),
                           steps |-> JNum(t.consecutive_successes),
                           goal_found |-> JBool(goal_achieved)])),
                Some(CompletionText(c[1]) \o Text.Colon \o steps \o Text.StepsGoal
                         \o (IF goal_achieved THEN Text.True ELSE Text.False))),
            goal_achieved, c[2], t.current_mode_str, fresh_state.active_window)

\* claude.rs, user_msg: what a next-action prompt is built from
next_request(t, h) ==
    Some([kind |-> "next", goal |-> t.goal, step |-> Len(h) + 1,
          state |-> t.current_state, history |-> h])

\* claude.rs, retry_msg_with_chunk: what a retry prompt is built from
\* (get_retry_action receives the history and does not use it)
retry_request(t, e) ==
    Some([kind |-> "retry", failed |-> t.action_to_try, error |-> e, state |-> t.current_state])

\* a variant of backfill_tokens that writes onto the first entry:
\* C3_AppendOnlyUnlessCleared must tell it apart
backfill_tokens_first(h) ==
    IF h = <<>> THEN h
    ELSE [h EXCEPT ![1] = [@ EXCEPT !.input_tokens = Some(ReplyTokens),
                                    !.output_tokens = Some(ReplyTokens)]]

\* lines 415-422: the token counts go onto the entry that is last now
backfill_tokens(h) ==
    IF h = <<>> THEN h
    ELSE [h EXCEPT ![Len(h)] = [@ EXCEPT !.input_tokens = Some(ReplyTokens),
                                         !.output_tokens = Some(ReplyTokens)]]

\* lines 158-201 and 427-429: the head of the for loop, entered with the
\* locals t and the history h: leave when the budget is used up, record a
\* complete action and leave, or set up the first attempt of the step
BeginIteration(r, t, h) ==
    IF t.loop_iter >= max_steps
    THEN /\ history' = h
         /\ pending_action' = None
         /\ task' = [task EXCEPT ![r] = Return(OkResult(t, t.current_state))]
    ELSE IF t.current_action.action_type = "complete"
    THEN /\ history' = Append(h, complete_entry(t, Len(h) + 1))
         /\ pending_action' = None
         /\ task' = [task EXCEPT ![r] = Return(OkResult(t, t.current_state))]
    ELSE /\ history' = h
         /\ pending_action' = pending_action
         /\ task' = [task EXCEPT ![r] =
                [t EXCEPT !.pc = "execute", !.step_number = Len(h) + 1,
                          !.retry_count = 1, !.chunk_index = 0,
                          !.action_to_try = t.current_action, !.action_succeeded = FALSE]]

\* a variant of read_session that starts the loop with a click instead of
\* the action it read: C2_FirstExecutedWasPending must tell it apart
read_session_other_action(action, goal, key) ==
    [IdleTask EXCEPT !.pc = "detect_initial", !.action = action, !.goal = goal,
                     !.api_key = key, !.current_action = Click]

\* lines 134-142: the locals of an approved invocation: the pending action,
\* the goal and the key as read from AppState; current_action = action
read_session(action, goal, key) ==
    [IdleTask EXCEPT !.pc = "detect_initial", !.action = action, !.goal = goal,
                     !.api_key = key, !.current_action = action]

\* lines 128-145: approve_action is invoked; a rejection clears the pending
\* action, an approval reads the session and starts the first mode probe
approve_action(r, approved) ==
    /\ task[r].pc = "idle"
    /\ \A q \in EarlierRuns(r) : task[q] # IdleTask
    /\ budget.calls > 0
    /\ budget' = [budget EXCEPT !.calls = @ - 1]
    /\ pending_action' = IF approved THEN pending_action ELSE None
    /\ task' = [task EXCEPT ![r] =
            IF ~approved THEN Return(ErrResult(IdleTask, FALSE, "Rejected"))
            ELSE IF pending_action = None THEN Return(ErrResult(IdleTask, FALSE, "No pending action"))
            ELSE IF current_goal = None THEN Return(ErrResult(IdleTask, FALSE, "No goal set"))
            ELSE IF api_key = None THEN Return(ErrResult(IdleTask, FALSE, "No API key"))
            ELSE read_session(Unwrap(pending_action), Unwrap(current_goal), Unwrap(api_key))]
    /\ UNCHANGED <<api_key, history, current_goal, chrome, page, euc, cdp_vars, call>>

\* lines 145-156: the initial mode probe returns
detect_initial(r) ==
    /\ task[r].pc = "detect_initial"
    /\ task' = [task EXCEPT ![r] =
            [@ EXCEPT !.pc = "observe_initial",
                      !.initial_mode_str = detect_automation_mode(chrome),
                      !.current_mode_str = detect_automation_mode(chrome)]]
    /\ UNCHANGED <<api_key, history, pending_action, current_goal, chrome, page, euc, budget, cdp_vars, call>>

\* lines 156-209: the initial observation returns; the loop is entered
observe_initial(r) ==
    /\ task[r].pc = "observe_initial"
    /\ \E res \in ObserveResults :
        /\ budget' = SpendObserve(res)
        /\ IF IsOk(res)
           THEN BeginIteration(r, [task[r] EXCEPT !.current_state = res[2], !.observed = "fresh"],
                               history)
           ELSE /\ task' = [task EXCEPT ![r] = Return(ErrResult(task[r], FALSE, res[2]))]
                /\ UNCHANGED <<history, pending_action>>
    /\ UNCHANGED <<api_key, current_goal, chrome, page, euc, cdp_vars, call>>

\* lines 209-216, 272-283, 287-308 and 380-382: execute_action_auto returns.
\* Ok: the settle wait, then the fresh observation is requested.
\* Err with attempts left: the retry prompt is sent.
\* Err at the last attempt: the failure entry is pushed and a fresh
\* observation is requested.
execute(r) ==
    LET t == task[r]
        a == t.action_to_try
    IN  /\ t.pc = "execute"
        /\ \E found \in (IF NeedsTarget(a) /\ budget.incidents > 0 THEN BOOLEAN ELSE {TRUE}) :
            LET res == execute_action_auto(chrome, a, found)
                tx == [t EXCEPT !.exec_mode = detect_automation_mode(chrome),
                                !.observed = "executed"]
                spent == IF found THEN budget ELSE Incident
            IN  IF IsOk(res)
                THEN /\ \E effect \in ActionEffects(a) :
                           /\ chrome' = effect[1]
                           /\ page' = effect[2]
                           /\ budget' = SpendEffect(a, effect, spent)
                     /\ task' = [task EXCEPT ![r] = [tx EXCEPT !.pc = "observe_fresh"]]
                     /\ UNCHANGED history
                ELSE IF RetryAllowed(t.retry_count)
                THEN /\ task' = [task EXCEPT ![r] =
                             [tx EXCEPT !.pc = "retry_llm", !.chunk_index = @ + 1,
                                        !.e = res[2], !.request = retry_request(t, res[2])]]
                     /\ budget' = spent
                     /\ UNCHANGED <<history, chrome, page>>
                ELSE /\ history' = Append(history, failure_entry(t, res[2]))
                     /\ task' = [task EXCEPT ![r] =
                             [tx EXCEPT !.pc = "observe_failed", !.e = res[2],
                                        !.consecutive_successes = 0]]
                     /\ budget' = spent
                     /\ UNCHANGED <<chrome, page>>
        /\ UNCHANGED <<api_key, pending_action, current_goal, euc, cdp_vars, call>>

\* lines 281-285 and 203-209: the reply to the retry prompt returns
retry_reply(r, retry_acts) ==
    LET t == task[r]
    IN  /\ t.pc = "retry_llm"
        /\ \E res \in RetryResults(retry_acts) :
            /\ budget' = SpendRetry(res)
            /\ task' = [task EXCEPT ![r] =
                    IF IsOk(res)
                    THEN [t EXCEPT !.pc = "execute", !.action_to_try = res[2],
                                   !.retry_count = @ + 1, !.request = None]
                    ELSE Return(ErrResult(t, TRUE, res[2]))]
        /\ UNCHANGED <<api_key, history, pending_action, current_goal, chrome, page, euc, cdp_vars, call>>

\* lines 219-231: the observation after a successful action returns
observe_fresh(r) ==
    LET t == task[r]
    IN  /\ t.pc = "observe_fresh"
        /\ \E res \in ObserveResults :
            /\ budget' = SpendObserve(res)
            /\ task' = [task EXCEPT ![r] =
                    [t EXCEPT !.pc = "detect_new_mode",
                              !.fresh_state = fresh_or_previous(res, t.current_state),
                              !.observed = IF IsOk(res) THEN "fresh" ELSE "fallback"]]
        /\ UNCHANGED <<api_key, history, pending_action, current_goal, chrome, page, euc, cdp_vars, call>>

\* lines 231-270 and 313-392: the mode probe after a successful action
\* returns; the success entry is pushed; at the threshold the observation
\* for the goal check is requested, otherwise the next action
detect_new_mode(r) ==
    LET t == task[r]
        new_mode_str == detect_automation_mode(chrome)
        mode_changed == new_mode_str # t.current_mode_str
        mode == IF mode_changed THEN new_mode_str ELSE t.current_mode_str
        h == Append(history, success_entry(t, mode_changed, new_mode_str, mode))
        t1 == [t EXCEPT !.current_mode_str = mode,
                        !.current_state = t.fresh_state,
                        !.action_succeeded = TRUE,
                        !.consecutive_successes = @ + 1]
    IN  /\ t.pc = "detect_new_mode"
        /\ history' = h
        /\ task' = [task EXCEPT ![r] =
                IF AutoCompleteDue(t1.action_succeeded, t1.consecutive_successes)
                THEN [t1 EXCEPT !.pc = "observe_threshold"]
                ELSE [t1 EXCEPT !.pc = "next_llm", !.request = next_request(t1, h)]]
        /\ UNCHANGED <<api_key, pending_action, current_goal, chrome, page, euc, budget, cdp_vars, call>>

\* lines 321-376: the observation for the goal check returns; the
\* synthesized entry is pushed and the invocation returns
observe_threshold(r) ==
    LET t == task[r]
    IN  /\ t.pc = "observe_threshold"
        /\ \E res \in ObserveResults :
            \E fresh_state \in {fresh_or_previous(res, t.current_state)} :
            \E goal_achieved \in {check_goal_in_a11y(t.goal, fresh_state)} :
                /\ budget' = SpendObserve(res)
                /\ history' = Append(history,
                        auto_complete_entry(t, Len(history) + 1, goal_achieved, fresh_state))
                /\ pending_action' = None
                /\ task' = [task EXCEPT ![r] = Return(OkResult(t, fresh_state))]
        /\ UNCHANGED <<api_key, current_goal, chrome, page, euc, cdp_vars, call>>

\* lines 380-392: the observation after a failed step returns
observe_failed(r) ==
    LET t == task[r]
    IN  /\ t.pc = "observe_failed"
        /\ \E res \in ObserveResults :
            /\ budget' = SpendObserve(res)
            /\ task' = [task EXCEPT ![r] =
                    IF IsOk(res)
                    THEN LET t1 == [t EXCEPT !.current_state = res[2], !.observed = "fresh"]
                         IN  [t1 EXCEPT !.pc = "next_llm", !.request = next_request(t1, history)]
                    ELSE Return(ErrResult(t, TRUE, res[2]))]
        /\ UNCHANGED <<api_key, history, pending_action, current_goal, chrome, page, euc, cdp_vars, call>>

\* lines 392-425 and the head of the next iteration: the reply to the
\* next-action prompt returns
next_reply(r, acts) ==
    LET t == task[r]
    IN  /\ t.pc = "next_llm"
        /\ \E res \in NextResults(acts) :
            /\ budget' = SpendNext(res)
            /\ IF IsOk(res)
               THEN BeginIteration(r, [t EXCEPT !.current_action = res[2],
                                                !.loop_iter = @ + 1,
                                                !.request = None],
                                   backfill_tokens(history))
               ELSE /\ task' = [task EXCEPT ![r] = Return(ErrResult(t, TRUE, res[2]))]
                    /\ UNCHANGED <<history, pending_action>>
        /\ UNCHANGED <<api_key, current_goal, chrome, page, euc, cdp_vars, call>>

\* ------------------------------------------------------------------------
\* ChromeConnection (chrome_cdp.rs, lines 28-32 and 67-98)
\* ------------------------------------------------------------------------
\* the tasks that call send on one connection
Callers == {"s1", "s2"}

NoCall == [fn |-> "none", input |-> None, output |-> None]

IdleSender == [pc |-> "idle", cid |-> 0, left |-> MaxSends, written |-> 0, result |-> None]

\* chrome_cdp.rs, connect: the socket is split, cmd_id starts at 0, both
\* mutexes are free; Chrome may still emit MaxEvents events on its own
connect ==
    /\ conn = [cmd_id |-> 0, ws_write |-> None, ws_read |-> None]
    /\ ws = [open |-> TRUE, sent |-> <<>>, replied |-> 0, incoming |-> <<>>, events |-> MaxEvents]
    /\ sender = [c \in Callers |-> IdleSender]

\* what the read half yields: a text frame {id, result | error} (an event
\* carries no id), or a stream error
TextFrame(id, error) == [kind |-> "text", id |-> id, error |-> error]
StreamError == [kind |-> "error", id |-> None, error |-> FALSE]

\* lines 80-84: send is called; the id is taken under the cmd_id mutex,
\* which is held over no await
send_cmd_id(c) ==
    /\ sender[c].pc = "idle"
    /\ sender[c].left > 0
    /\ conn' = [conn EXCEPT !.cmd_id = @ + 1]
    /\ sender' = [sender EXCEPT ![c] = [pc |-> "lock_write", cid |-> conn.cmd_id + 1,
                                        left |-> @.left - 1, written |-> 0, result |-> None]]
    /\ UNCHANGED <<ws, app_vars, call>>

\* line 85: self.ws_write.lock().await
send_lock_write(c) ==
    /\ sender[c].pc = "lock_write"
    /\ conn.ws_write = None
    /\ conn' = [conn EXCEPT !.ws_write = Some(c)]
    /\ sender' = [sender EXCEPT ![c].pc = "write"]
    /\ UNCHANGED <<ws, app_vars, call>>

\* line 85: .send(Message::Text(cmd)).await?  The guard is a temporary of
\* the statement: the write half is free again when the statement ends
send_write(c) ==
    /\ sender[c].pc = "write"
    /\ conn' = [conn EXCEPT !.ws_write = None]
    /\ IF ws.open
       THEN /\ ws' = [ws EXCEPT !.sent = Append(@, sender[c].cid)]
            /\ sender' = [sender EXCEPT ![c].pc = "lock_read", ![c].written = @ + 1]
       ELSE /\ ws' = ws
            /\ sender' = [sender EXCEPT ![c].pc = "idle", ![c].result = Some(Err("transport"))]
    /\ UNCHANGED <<app_vars, call>>

\* line 87: self.ws_read.lock().await
send_lock_read(c) ==
    /\ sender[c].pc = "lock_read"
    /\ conn.ws_read = None
    /\ conn' = [conn EXCEPT !.ws_read = Some(c)]
    /\ sender' = [sender EXCEPT ![c].pc = "next"]
    /\ UNCHANGED <<ws, app_vars, call>>

\* lines 87-96: .next().await returns and one turn of the loop is done. The
\* guard is a temporary of the if-let: the read half is free again at the
\* end of the turn.
\*   Some(Err(_)): msg? returns the error;
\*   Some(Ok(Text)) with the id of this command: Err("CDP: ..") or Ok(result);
\*   Some(Ok(Text)) with another id or none: the frame is dropped, next turn;
\*   None (the stream has ended): the if-let does not match, next turn
send_next(c) ==
    /\ sender[c].pc = "next"
    /\ ws.incoming # <<>> \/ ~ws.open
    /\ conn' = [conn EXCEPT !.ws_read = None]
    /\ IF ws.incoming = <<>>
       THEN /\ ws' = ws
            /\ sender' = [sender EXCEPT ![c].pc = "lock_read"]
       ELSE LET msg == Head(ws.incoming)
            IN  /\ ws' = [ws EXCEPT !.incoming = Tail(@)]
                /\ sender' = [sender EXCEPT ![c] =
                        IF msg.kind = "error"
                        THEN [@ EXCEPT !.pc = "idle", !.result = Some(Err("transport"))]
                        ELSE IF msg.id = Some(sender[c].cid)
                        THEN [@ EXCEPT !.pc = "idle",
                                       !.result = Some(IF msg.error THEN Err("remote")
                                                       ELSE Ok(Unwrap(msg.id)))]
                        ELSE [@ EXCEPT !.pc = "lock_read"]]
    /\ UNCHANGED <<app_vars, call>>

\* Chrome answers the oldest command it has not answered yet
chrome_reply ==
    /\ ws.open
    /\ ws.replied < Len(ws.sent)
    /\ \E error \in BOOLEAN :
        ws' = [ws EXCEPT !.replied = @ + 1,
                         !.incoming = Append(@, TextFrame(Some(ws.sent[ws.replied + 1]), error))]
    /\ UNCHANGED <<conn, sender, app_vars, call>>

\* Chrome emits an event: a text frame without id
chrome_event ==
    /\ ws.open
    /\ ws.events > 0
    /\ ws' = [ws EXCEPT !.events = @ - 1, !.incoming = Append(@, TextFrame(None, FALSE))]
    /\ UNCHANGED <<conn, sender, app_vars, call>>

\* the peer closes the socket (Chrome exits, the tab is closed): the stream
\* yields what has arrived and then ends
ws_end ==
    /\ ws.open
    /\ ws' = [ws EXCEPT !.open = FALSE]
    /\ UNCHANGED <<conn, sender, app_vars, call>>

\* the socket breaks: the stream yields an error and then ends
ws_fail ==
    /\ ws.open
    /\ ws' = [ws EXCEPT !.open = FALSE, !.incoming = Append(@, StreamError)]
    /\ UNCHANGED <<conn, sender, app_vars, call>>

\* the steps of one send invocation
send(c) ==
    \/ send_cmd_id(c)
    \/ send_lock_write(c)
    \/ send_write(c)
    \/ send_lock_read(c)
    \/ send_next(c)

\* ------------------------------------------------------------------------
\* parse_response (claude.rs, lines 444-512)
\* ------------------------------------------------------------------------
Min(S) == CHOOSE i \in S : \A j \in S : i <= j

\* str::find: the offset of the first occurrence
find(t, pat) ==
    LET hits == {i \in 0..(Len(t) - Len(pat)) : SubSeq(t, i + 1, i + Len(pat)) = pat}
    IN  IF hits = {} THEN None ELSE Some(Min(hits))

\* t[a..b]
slice(t, a, b) == SubSeq(t, a + 1, b)

\* str::trim
trim(t) ==
    LET keep == {i \in 1..Len(t) : t[i] # " "}
    IN  IF keep = {} THEN <<>> ELSE SubSeq(t, Min(keep), (CHOOSE i \in keep : \A j \in keep : i >= j))

\* a code fence: three grave accents (U+0060), and the fence that opens a
\* json block; the JSON text of an ActionCommand whose target is a string
\* and whose optional fields are absent, around the two strings
Json ==
    [ Fence |-> <<"U+0060", "U+0060", "U+0060">>,
      FenceJson |-> <<"U+0060", "U+0060", "U+0060", "j", "s", "o", "n">>,
      ActionType |-> <<"{", "\"", "a", "c", "t", "i", "o", "n", "_", "t", "y", "p", "e", "\"", ":", "\"">>,
      Target |-> <<"\"", ",", "\"", "t", "a", "r", "g", "e", "t", "\"", ":", "\"">>,
      Close |-> <<"\"", "}">> ]

\* serde_json::from_str::<ActionCommand>, for objects of that form:
\* {"action_type":"..","target":".."} with nothing but white space around
\* it; a string ends at the first quote (the texts hold no backslash)
from_str(json_str) ==
    LET s == trim(json_str)
        n1 == Len(Json.ActionType)
        q1 == find(slice(s, n1, Len(s)), <<"\"">>)
    IN  IF ~(Len(s) >= n1 /\ slice(s, 0, n1) = Json.ActionType /\ IsSome(q1)) THEN Err("json")
        ELSE LET a == n1 + Unwrap(q1)
                 b == a + Len(Json.Target)
                 q2 == find(slice(s, b, Len(s)), <<"\"">>)
             IN  IF ~(Len(s) >= b /\ slice(s, a, b) = Json.Target /\ IsSome(q2)) THEN Err("json")
                 ELSE LET c == b + Unwrap(q2)
                      IN  IF slice(s, c, Len(s)) # Json.Close THEN Err("json")
                          ELSE Ok(ActionCommand(slice(s, n1, a), JStr(slice(s, b, c)), None, None))

\* parse_response on a reply without "error" whose content[0].text is t:
\* the action of the first strategy that parses, else the error of the last.
\*   fenced (lines 462-470 and 472-480): the text between the first opening
\*     fence and the next fence, trimmed;
\*   braces (lines 482-504): from the first '{' to the '}' at which the brace
\*     depth is back at 0;
\*   line 507: the whole text, trimmed
parse_response(t) ==
    LET fenced(open) ==
            LET start == find(t, open)
            IN  IF ~IsSome(start) THEN Err("json")
                ELSE LET from == Unwrap(start) + Len(open)
                         end == find(slice(t, from, Len(t)), Json.Fence)
                     IN  IF ~IsSome(end) THEN Err("json")
                         ELSE from_str(trim(slice(t, from, from + Unwrap(end))))
        braces ==
            LET start == find(t, <<"{">>)
            IN  IF ~IsSome(start) THEN Err("json")
                ELSE LET s0 == Unwrap(start) + 1
                         depth(i) == Cardinality({k \in s0..i : t[k] = "{"})
                                         - Cardinality({k \in s0..i : t[k] = "}"})
                         ends == {i \in s0..Len(t) : t[i] = "}" /\ depth(i) = 0}
                     IN  IF ends = {} THEN Err("json")
                         ELSE from_str(slice(t, s0 - 1, Min(ends)))
    IN  IF IsOk(fenced(Json.FenceJson)) THEN fenced(Json.FenceJson)
        ELSE IF IsOk(fenced(Json.Fence)) THEN fenced(Json.Fence)
        ELSE IF IsOk(braces) THEN braces
        ELSE from_str(trim(t))

\* parse_response is applied to the reply: the JSON text of the action
\* (serde_json::to_string), inside a json fence, alone, or in prose
apply_parse_response ==
    /\ call.fn = "parse_response"
    /\ call.output = None
    /\ LET action == call.input.action
           json == Json.ActionType \o action.action_type \o Json.Target
                       \o action.target[2] \o Json.Close
           text == IF call.input.wrapping = "fence"
                   THEN Json.FenceJson \o <<" ">> \o json \o <<" ">> \o Json.Fence
                   ELSE IF call.input.wrapping = "alone" THEN json
                   ELSE <<"p", "r", "e", "f", "i", "x", " ">> \o json \o <<" ", "s", "u", "f", "f", "i", "x">>
       IN  call' = [call EXCEPT !.output = Some(parse_response(text))]
    /\ UNCHANGED <<app_vars, cdp_vars>>

\* ------------------------------------------------------------------------
\* The actions of the two dispatchers that take a target (windows_ui.rs,
\* lines 721-868; chrome_cdp.rs, lines 374-437): what the driver is asked to do, in order,
\* and the result, for each outcome of the lookup of the target, if one is
\* made.
\* ------------------------------------------------------------------------
PointerActions == {"click", "double_click", "right_click", "hover"}

\* the prefixes of a target
Prefix ==
    [ Coords |-> <<"c", "o", "o", "r", "d", "s", ":">>,
      Name |-> <<"n", "a", "m", "e", ":">>,
      Ax |-> <<"a", "x", ":">>,
      Xpath |-> <<"x", "p", "a", "t", "h", ":">> ]

\* str::starts_with
starts_with(s, p) == Len(s) >= Len(p) /\ SubSeq(s, 1, Len(p)) = p

\* str::split(ch).collect()
RECURSIVE split(_, _)
split(s, ch) ==
    LET cuts == {i \in 1..Len(s) : s[i] = ch}
    IN  IF cuts = {} THEN <<s>>
        ELSE <<SubSeq(s, 1, Min(cuts) - 1)>> \o split(SubSeq(s, Min(cuts) + 1, Len(s)), ch)

\* str::parse::<i32>: an optional sign, then digits, within the i32 range
parse_i32(s) ==
    LET RECURSIVE digits_value(_)
        digits_value(d) ==
            IF d = <<>> THEN 0
            ELSE 10 * digits_value(SubSeq(d, 1, Len(d) - 1))
                    + (CHOOSE n \in 0..9 : DigitChars[n + 1] = d[Len(d)])
        signed == s # <<>> /\ s[1] \in {"+", "-"}
        digits == IF signed THEN Tail(s) ELSE s
        value == IF signed /\ s[1] = "-" THEN 0 - digits_value(digits) ELSE digits_value(digits)
    IN  IF digits = <<>> \/ \E i \in 1..Len(digits) : \A d \in 1..10 : DigitChars[d] # digits[i]
        THEN Err("parse")
        ELSE IF value < (0 - 2147483647) - 1 \/ value > 2147483647 THEN Err("parse")
        ELSE Ok(value)

\* windows_ui.rs, execute_llm_action: click (721-736), double_click
\* (737-771), right_click (772-803), hover (806-835). node is what the
\* lookup of the target finds on the screen: "absent", "no_bounds" (an
\* element without a bounding rectangle) or "found"
desktop_pointer_action(action_type, target, node) ==
    LET s == Unwrap(as_str(target))
        by_name == starts_with(s, Prefix.Name)
        lookup == IF by_name THEN <<"find_node_by_name", slice(s, 5, Len(s))>>
                  ELSE <<"find_node_by_id", s>>
    IN  IF ~IsSome(as_str(target)) THEN [result |-> Ok(<<>>), calls |-> <<>>]
        ELSE IF starts_with(s, Prefix.Coords)
        THEN LET coords == split(slice(s, 7, Len(s)), ",")
             IN  IF Len(coords) # 2 THEN [result |-> Ok(<<>>), calls |-> <<>>]
                 ELSE LET x == parse_i32(trim(coords[1]))
                          y == parse_i32(trim(coords[2]))
                      IN  IF ~IsOk(x) THEN [result |-> x, calls |-> <<>>]
                          ELSE IF ~IsOk(y) THEN [result |-> y, calls |-> <<>>]
                          ELSE [result |-> Ok(<<>>), calls |-> << <<action_type, x[2], y[2]>> >>]
        ELSE IF node = "found"
        THEN [result |-> Ok(<<>>), calls |-> <<lookup, <<action_type, "center">> >>]
        ELSE IF node = "no_bounds"
        THEN [result |-> IF action_type = "click" THEN Err(DesktopError.NoBounds) ELSE Ok(<<>>),
              calls |-> <<lookup>>]
        ELSE [result |-> Err(IF by_name THEN DesktopError.NotFoundByNamePrefix \o slice(s, 5, Len(s))
                             ELSE DesktopError.NotFoundPrefix \o s),
              calls |-> <<lookup>>]

\* windows_ui.rs, execute_llm_action: type (840-854) and clear (855-868);
\* the click before the keys is click_by_name (398-412) or click_element
\* (382-395)
desktop_text_action(action_type, target, params, node) ==
    LET s == IF IsSome(as_str(target)) THEN Unwrap(as_str(target)) ELSE <<>>
        by_name == starts_with(s, Prefix.Name)
        clicks == IF action_type = "type"
                  THEN s # <<>> /\ (by_name \/ ~starts_with(s, Prefix.Coords))
                  ELSE by_name \/ s # <<>>
        lookup == IF by_name THEN <<"find_node_by_name", slice(s, 5, Len(s))>>
                  ELSE <<"find_node_by_id", s>>
        keys == IF action_type = "type" THEN << <<"type_text", Unwrap(params)>> >>
                ELSE << <<"press_key_combo", <<"Ctrl">>, "a">>, <<"press_key", "Backspace">> >>
    IN  IF action_type = "type" /\ ~IsSome(params)
        THEN [result |-> Err(DesktopError.NoTextParam), calls |-> <<>>]
        ELSE IF ~clicks THEN [result |-> Ok(<<>>), calls |-> keys]
        ELSE IF node = "found"
        THEN [result |-> Ok(<<>>), calls |-> <<lookup, <<"click", "center">> >> \o keys]
        ELSE [result |-> Err(IF node = "no_bounds" THEN DesktopError.NoBounds
                             ELSE IF by_name
                             THEN DesktopError.NotFoundByNamePrefix \o slice(s, 5, Len(s))
                             ELSE DesktopError.NotFoundPrefix \o s),
              calls |-> <<lookup>>]

\* chrome_cdp.rs, execute_llm_action: click (374-380), double_click
\* (381-387), right_click (388-394), hover (395-399); find_element
\* (132-138) asks DOM.querySelector
browser_pointer_action(action_type, target, node) ==
    LET s == Unwrap(as_str(target))
        lookup == IF action_type = "click" /\ starts_with(s, Prefix.Ax)
                  THEN <<"click_ax", slice(s, 3, Len(s))>>
                  ELSE IF action_type = "click" /\ starts_with(s, Prefix.Xpath)
                  THEN <<"find_by_xpath", slice(s, 6, Len(s))>>
                  ELSE <<"find_element", s>>
    IN  IF ~IsSome(as_str(target)) THEN [result |-> Ok(<<>>), calls |-> <<>>]
        ELSE IF node = "found"
        THEN [result |-> Ok(<<>>), calls |-> <<lookup, <<action_type, "center">> >>]
        ELSE [result |-> Err(IF node = "no_bounds" THEN BrowserError.NoBox
                             ELSE IF lookup[1] = "click_ax" THEN BrowserError.AxNotFound
                             ELSE IF lookup[1] = "find_by_xpath" THEN BrowserError.XPathNotFound
                             ELSE BrowserError.NotFound),
              calls |-> <<lookup>>]

\* chrome_cdp.rs, execute_llm_action: type (400-423) and clear (424-437);
\* type_into (172-177) and clear_input (323-331) click the element that
\* find_element returns
browser_text_action(action_type, target, params, node) ==
    LET is_str == IsSome(as_str(target))
        s == IF is_str THEN Unwrap(as_str(target)) ELSE <<>>
        ax == starts_with(s, Prefix.Ax)
        xpath == action_type = "type" /\ starts_with(s, Prefix.Xpath)
        clicks == IF action_type = "type" THEN s # <<>> ELSE is_str
        lookup == IF ax THEN <<"click_ax", slice(s, 3, Len(s))>>
                  ELSE IF xpath THEN <<"find_by_xpath", slice(s, 6, Len(s))>>
                  ELSE <<"find_element", s>>
        select_all == <<"dispatchKeyEvent", "keyDown", "Ctrl+a">>
        keys == IF action_type = "type"
                THEN (IF s # <<>> /\ ~ax /\ ~xpath THEN <<select_all>> ELSE <<>>)
                         \o << <<"insertText", Unwrap(params)>> >>
                ELSE IF is_str
                THEN <<select_all, <<"dispatchKeyEvent", "keyUp", "Ctrl+a">>,
                       <<"dispatchKeyEvent", "keyDown", "Backspace">>,
                       <<"dispatchKeyEvent", "keyUp", "Backspace">> >>
                ELSE <<>>
    IN  IF action_type = "type" /\ ~IsSome(params)
        THEN [result |-> Err(BrowserError.NoText), calls |-> <<>>]
        ELSE IF ~clicks THEN [result |-> Ok(<<>>), calls |-> keys]
        ELSE IF node = "found"
        THEN [result |-> Ok(<<>>), calls |-> <<lookup, <<"click", "center">> >> \o keys]
        ELSE [result |-> Err(IF node = "no_bounds" THEN BrowserError.NoBox
                             ELSE IF ax THEN BrowserError.AxNotFound
                             ELSE IF xpath THEN BrowserError.XPathNotFound
                             ELSE BrowserError.NotFound),
              calls |-> <<lookup>>]

\* the dispatcher of the mode is applied to a pointer action whose target
\* is "coords:x,y", written as the prompt tells the model to write it; no
\* element of the screen answers to the text of the target
apply_execute_llm_action ==
    /\ call.fn = "execute_llm_action"
    /\ call.output = None
    /\ LET i == call.input
           s == Prefix.Coords \o to_string(i.x) \o <<",">> \o to_string(i.y)
       IN  call' = [call EXCEPT !.output =
                        Some(IF i.mode = "browser"
                             THEN browser_pointer_action(i.action_type, JStr(s), "absent")
                             ELSE desktop_pointer_action(i.action_type, JStr(s), "absent"))]
    /\ UNCHANGED <<app_vars, cdp_vars>>

\* the dispatcher of the mode is applied to an action that takes a target:
\* any of the targets the prompt describes, or none, on a screen where the
\* lookup finds an element, an element without bounds, or nothing
apply_targeted_action ==
    /\ call.fn = "targeted_action"
    /\ call.output = None
    /\ LET i == call.input
           text == IF IsSome(i.params) /\ IsSome(as_object(Unwrap(i.params)))
                      /\ IsSome(get(Unwrap(as_object(Unwrap(i.params))), "text"))
                   THEN as_str(Unwrap(get(Unwrap(as_object(Unwrap(i.params))), "text")))
                   ELSE None
       IN  call' = [call EXCEPT !.output =
                        Some(IF i.action_type \in PointerActions
                             THEN (IF i.mode = "browser"
                                   THEN browser_pointer_action(i.action_type, i.target, i.node)
                                   ELSE desktop_pointer_action(i.action_type, i.target, i.node))
                             ELSE (IF i.mode = "browser"
                                   THEN browser_text_action(i.action_type, i.target, text, i.node)
                                   ELSE desktop_text_action(i.action_type, i.target, text, i.node)))]
    /\ UNCHANGED <<app_vars, cdp_vars>>

\* ------------------------------------------------------------------------
\* format_history, the learnings section (claude.rs, lines 259-291)
\* ------------------------------------------------------------------------
\* Vec::sort of strings: by bytes, a proper prefix first. Ascii lists the
\* characters of the learnings in the order of their code points
RECURSIVE sort(_)
sort(v) ==
    LET Ascii == <<"\n">> \o
            <<" ", ",", "-", "0", "1", "2", "3", "4", "5", "6", "7", "8", "9", ":", "A", "B", "C", "D", "E", "F", "G", "H", "I", "J", "K", "L", "M", "N", "O", "P", "Q", "R", "S", "T", "U", "V">>
            \o <<"W", "X", "Y", "Z", "[", "]", "_", "a", "b", "c", "d", "e", "f", "g", "h", "i", "j", "k", "l", "m", "n", "o", "p", "q", "r", "s", "t", "u", "v", "w", "x", "y", "z">>
        char_code(c) == CHOOSE i \in DOMAIN Ascii : Ascii[i] = c
        RECURSIVE str_less(_, _)
        str_less(a, b) ==
            IF b = <<>> THEN FALSE
            ELSE IF a = <<>> THEN TRUE
            ELSE IF a[1] # b[1] THEN char_code(a[1]) < char_code(b[1])
            ELSE str_less(Tail(a), Tail(b))
    IN  IF v = <<>> THEN <<>>
        ELSE LET rest == sort(Tail(v))
                 k == Cardinality({i \in 1..Len(rest) : str_less(rest[i], Head(v))})
             IN  SubSeq(rest, 1, k) \o <<Head(v)>> \o SubSeq(rest, k + 1, Len(rest))

\* a variant of dedup that removes nothing: C20_LearningsCappedAndDistinct
\* must tell it apart
dedup_nothing(v) == v

\* Vec::dedup: of each run of equal neighbours the first is kept
RECURSIVE dedup(_)
dedup(v) ==
    IF Len(v) <= 1 THEN v
    ELSE IF v[1] = v[2] THEN dedup(Tail(v))
    ELSE <<v[1]>> \o dedup(Tail(v))

\* the texts format_history looks for and writes
Learn ==
    [ NotFound |-> <<"n", "o", "t", " ", "f", "o", "u", "n", "d">>,
      NoElement |-> <<"N", "o", " ", "e", "l", "e", "m", "e", "n", "t">>,
      Timeout |-> <<"t", "i", "m", "e", "o", "u", "t">>,
      Unknown |-> <<"u", "n", "k", "n", "o", "w", "n">>,
      Name |-> <<<<"-", " ", "n", "a", "m", "e", ":">>,
                 <<" ", "n", "o", "t", " ", "f", "o", "u", "n", "d", ",", " ", "t", "r", "y", " ", "c", "o", "o", "r", "d", "s", " ", "o", "r", " ", "d", "i", "f", "f", "e", "r", "e", "n", "t", " ", "n", "a", "m", "e">>>>,
      NodeId |-> <<<<"-", " ", "n", "o", "d", "e", "_", "i", "d", " ">>,
                   <<" ", "s", "t", "a", "l", "e", ",", " ", "u", "s", "e", " ", "c", "o", "o", "r", "d", "s", " ", "f", "r", "o", "m", " ", "b", "o", "u", "n", "d", "s", " ", "i", "n", "s", "t", "e", "a", "d">>>>,
      TimedOut |-> <<<<"-", " ">>,
                     <<" ", "t", "i", "m", "e", "d", " ", "o", "u", "t", ",", " ", "e", "l", "e", "m", "e", "n", "t", " ", "m", "a", "y", " ", "n", "e", "e", "d", " ", "s", "c", "r", "o", "l", "l", " ", "o", "r", " ", "w", "a", "i", "t">>>>,
      Header |-> <<"[", "L", "E", "A", "R", "N", "I", "N", "G", "S", " ", "F", "R", "O", "M", " ", "F", "A", "I", "L", "U", "R", "E", "S", "]">> \o <<"\n">> ]

\* lines 265-282: what the failures teach, in their order
RECURSIVE learnings_from(_)
learnings_from(failures) ==
    LET f == Head(failures)
        target_str == IF as_str(f.action.target) # None THEN Unwrap(as_str(f.action.target))
                      ELSE <<>>
        error == IF IsSome(f.error) THEN Unwrap(f.error) ELSE Learn.Unknown
        RECURSIVE trim_start_matches(_, _)
        trim_start_matches(s, p) ==
            IF starts_with(s, p) THEN trim_start_matches(slice(s, Len(p), Len(s)), p) ELSE s
    IN  IF failures = <<>> THEN <<>>
        ELSE (IF contains(error, Learn.NotFound) \/ contains(error, Learn.NoElement)
              THEN IF starts_with(target_str, Prefix.Name)
                   THEN <<Learn.Name[1] \o trim_start_matches(target_str, Prefix.Name)
                              \o Learn.Name[2]>>
                   ELSE IF ~starts_with(target_str, Prefix.Coords)
                   THEN <<Learn.NodeId[1] \o target_str \o Learn.NodeId[2]>>
                   ELSE <<>>
              ELSE <<>>)
             \o (IF contains(error, Learn.Timeout)
                 THEN <<Learn.TimedOut[1] \o f.action.action_type \o Learn.TimedOut[2]>>
                 ELSE <<>>)
             \o learnings_from(Tail(failures))

\* lines 259-291: the text format_history puts before the recent failures
format_history_learnings(h) ==
    LET failures == SelectSeq(h, LAMBDA e : ~e.success)
        learnings == dedup(sort(learnings_from(failures)))
        take == SubSeq(learnings, 1, IF Len(learnings) < 5 THEN Len(learnings) ELSE 5)
        RECURSIVE push_lines(_)
        push_lines(ls) == IF ls = <<>> THEN <<>> ELSE Head(ls) \o <<"\n">> \o push_lines(Tail(ls))
    IN  IF failures = <<>> THEN <<>>
        ELSE Learn.Header \o push_lines(take) \o <<"\n">>

\* format_history is applied to the history
apply_format_history ==
    /\ call.fn = "format_history"
    /\ call.output = None
    /\ call' = [call EXCEPT !.output = Some(format_history_learnings(call.input))]
    /\ UNCHANGED <<app_vars, cdp_vars>>

\* ------------------------------------------------------------------------
\* Truncation (claude.rs, truncate_str, lines 365-376, and format_history,
\* lines 309-348; logging.rs, truncate, lines 320-326)
\* ------------------------------------------------------------------------
\* &s[..end]: the code points before the byte offset end; the slice panics
\* (None) when end is past the string or inside a code point
str_to(s, end) ==
    LET cuts == {k \in 0..Len(s) : utf8_len(SubSeq(s, 1, k)) = end}
    IN  IF cuts = {} THEN None ELSE Some(SubSeq(s, 1, CHOOSE k \in cuts : TRUE))

\* claude.rs, truncate_str; the result is Some(text), None stands for a panic
truncate_str(s, max_len) ==
    LET RECURSIVE boundary(_)
        boundary(end) == IF end > 0 /\ ~IsSome(str_to(s, end)) THEN boundary(end - 1) ELSE end
    IN  IF utf8_len(s) <= max_len THEN Some(s)
        ELSE Some(Unwrap(str_to(s, boundary(max_len))) \o <<".", ".", ".">>)

\* logging.rs, truncate
truncate(s, max) ==
    IF utf8_len(s) <= max THEN Some(s)
    ELSE IF IsSome(str_to(s, max)) THEN Some(Unwrap(str_to(s, max)) \o <<".", ".", ".">>)
    ELSE None

\* claude.rs, format_history, lines 309-348: the lines pushed under
\* [RECENT ACTIONS], in order, each without its line feed; None when the
\* slice of a target panics. The targets are strings.
recent_actions(entries) ==
    LET n == Len(entries)
        recent == SubSeq(entries, IF n > 5 THEN n - 4 ELSE 1, n)
        target_short(h) ==
            LET target_display == h.action.target[2]
            IN  IF utf8_len(target_display) > 40
                THEN IF IsSome(str_to(target_display, 40))
                     THEN Some(Unwrap(str_to(target_display, 40)) \o <<".", ".", ".">>)
                     ELSE None
                ELSE Some(target_display)
        \* prev_mode is None at the first of the displayed entries
        mode_marker(i) ==
            IF i > 1 /\ recent[i - 1].mode # recent[i].mode
            THEN <<" ", "*", "*", "*", " ", "M", "O", "D", "E", ":", " ">> \o ModeText(recent[i - 1].mode) \o <<" ", "-", ">", " ">>
                     \o ModeText(recent[i].mode) \o <<" ", "*", "*", "*">>
            ELSE <<>>
        line(i) ==
            LET h == recent[i]
            IN  <<"S", "t", "e", "p", " ">> \o to_string(h.step_number) \o <<":", " ">>
                    \o <<IF h.success THEN "U+2713" ELSE "U+2717">> \o <<" ">>
                    \o h.action.action_type \o <<" ", "-", ">", " ">> \o Unwrap(target_short(h))
                    \o <<" ", "[">> \o ModeText(h.mode) \o <<"]">> \o mode_marker(i) \o <<" ", "|", " ">>
                    \o Unwrap(truncate_str(h.llm_reasoning, 60))
    IN  IF \E i \in 1..Len(recent) : ~IsSome(target_short(recent[i])) THEN None
        ELSE Some([i \in 1..Len(recent) |-> line(i)])

\* truncate_str is applied to a string and a limit
apply_truncate_str ==
    /\ call.fn = "truncate_str"
    /\ call.output = None
    /\ call' = [call EXCEPT !.output = Some(truncate_str(call.input.s, call.input.max))]
    /\ UNCHANGED <<app_vars, cdp_vars>>

\* logging::truncate is applied to a string and a limit
apply_truncate ==
    /\ call.fn = "truncate"
    /\ call.output = None
    /\ call' = [call EXCEPT !.output = Some(truncate(call.input.s, call.input.max))]
    /\ UNCHANGED <<app_vars, cdp_vars>>

\* format_history writes the recent actions of the history
apply_recent_actions ==
    /\ call.fn = "recent_actions"
    /\ call.output = None
    /\ call' = [call EXCEPT !.output = Some(recent_actions(call.input))]
    /\ UNCHANGED <<app_vars, cdp_vars>>

\* check_goal_in_a11y is applied to a goal and an observation
apply_check_goal_in_a11y ==
    /\ call.fn = "check_goal_in_a11y"
    /\ call.output = None
    /\ call' = [call EXCEPT !.output =
                    Some(check_goal_in_a11y(call.input.goal, call.input.state))]
    /\ UNCHANGED <<app_vars, cdp_vars>>

\* ------------------------------------------------------------------------
\* The observation compressor (claude.rs, extract_interactables, lines
\* 157-228) and the tree of the browser driver (chrome_cdp.rs, get_a11y_tree,
\* lines 112-130)
\* ------------------------------------------------------------------------
\* line 202: a name shorter than this many bytes is a parent context
short_name == 30
\* line 226: elements.truncate(100)
max_elements == 100

\* claude.rs, extract_interactables. The bounds of a node, if it has any,
\* are whole and not negative.
extract_interactables(tree) ==
    LET roles == {<<"B", "u", "t", "t", "o", "n">>, <<"E", "d", "i", "t">>, <<"C", "o", "m", "b", "o", "B", "o", "x">>, <<"C", "h", "e", "c", "k", "B", "o", "x">>, <<"R", "a", "d", "i", "o", "B", "u", "t", "t", "o", "n">>,
                  <<"L", "i", "n", "k">>, <<"M", "e", "n", "u", "I", "t", "e", "m">>, <<"L", "i", "s", "t", "I", "t", "e", "m">>, <<"T", "a", "b", "I", "t", "e", "m">>, <<"T", "r", "e", "e", "I", "t", "e", "m">>,
                  <<"H", "y", "p", "e", "r", "l", "i", "n", "k">>, <<"S", "p", "l", "i", "t", "B", "u", "t", "t", "o", "n">>, <<"M", "e", "n", "u", "B", "a", "r">>, <<"M", "e", "n", "u">>, <<"T", "o", "o", "l", "B", "a", "r">>}
        \* walk(node, parent_ctx), walk_each(items, first, last, parent_ctx):
        \* the elements walk pushes for the node, for the items in order
        RECURSIVE walk(_, _)
        RECURSIVE walk_each(_, _, _, _)
        walk_each(items, first, last, parent_ctx) ==
            IF first > last THEN <<>>
            ELSE IF first = last THEN walk(items[first], parent_ctx)
            ELSE LET mid == (first + last) \div 2
                 IN  walk_each(items, first, mid, parent_ctx)
                         \o walk_each(items, mid + 1, last, parent_ctx)
        walk(node, parent_ctx) ==
            IF IsSome(as_object(node))
            THEN LET obj == Unwrap(as_object(node))
                     field(key) == IF IsSome(get(obj, key)) THEN Unwrap(get(obj, key)) ELSE JNull
                     str(key) == IF IsSome(as_str(field(key))) THEN Unwrap(as_str(field(key)))
                                 ELSE <<>>
                     role == str("role")
                     name == str("name")
                     node_id == str("node_id")
                     focusable == field("focusable")[1] = "bool" /\ field("focusable")[2]
                     b == IF IsSome(as_object(field("bounds")))
                          THEN Unwrap(as_object(field("bounds"))) ELSE [none |-> JNull]
                     coords == IF \A k \in {"x", "y", "width", "height"} :
                                      k \in DOMAIN b /\ b[k][1] = "num"
                               THEN Some(to_string(b.x[2] + (b.width[2] \div 2)) \o <<",">>
                                             \o to_string(b.y[2] + (b.height[2] \div 2)))
                               ELSE None
                     is_interactable == (\E r \in roles : contains(role, r)) \/ focusable
                     pushed == IF is_interactable /\ name # <<>> /\ node_id # <<>>
                               THEN <<[node_id |-> node_id, role |-> role,
                                       name |-> Unwrap(truncate_str(name, 50)),
                                       parent_context |-> parent_ctx, coords |-> coords,
                                       focusable |-> focusable]>>
                               ELSE <<>>
                     child_ctx == IF name # <<>> /\ utf8_len(name) < short_name THEN name
                                  ELSE IF role # <<>> THEN role
                                  ELSE parent_ctx
                     children == as_array(field("children"))
                 IN  IF IsSome(children)
                     THEN pushed \o walk_each(Unwrap(children), 1, Len(Unwrap(children)), child_ctx)
                     ELSE pushed
            ELSE IF IsSome(as_array(node))
            THEN walk_each(Unwrap(as_array(node)), 1, Len(Unwrap(as_array(node))), parent_ctx)
            ELSE <<>>
        elements == walk(tree, <<"D", "e", "s", "k", "t", "o", "p">>)
    IN  SubSeq(elements, 1, IF Len(elements) < max_elements THEN Len(elements) ELSE max_elements)

\* chrome_cdp.rs, get_a11y_tree, when both commands are answered, followed
\* by serde_json::to_value (main.rs, line 606): the nodes of
\* Accessibility.getFullAXTree that pass the filter, as the JSON of Vec<AXNode>.
\* A node of the reply is a record of nodeId, role, name and focusable, each
\* None when the reply has no such string or boolean
get_a11y_tree(nodes) ==
    LET roles == {<<"b", "u", "t", "t", "o", "n">>, <<"l", "i", "n", "k">>, <<"t", "e", "x", "t", "b", "o", "x">>, <<"s", "e", "a", "r", "c", "h", "b", "o", "x">>, <<"c", "o", "m", "b", "o", "b", "o", "x">>,
                  <<"c", "h", "e", "c", "k", "b", "o", "x">>, <<"r", "a", "d", "i", "o">>, <<"m", "e", "n", "u", "i", "t", "e", "m">>, <<"t", "a", "b">>, <<"l", "i", "s", "t", "i", "t", "e", "m">>}
        role(n) == IF IsSome(n.role) THEN Unwrap(n.role) ELSE <<>>
        focusable(n) == IsSome(n.focusable) /\ Unwrap(n.focusable)
        kept == SelectSeq(nodes, LAMBDA n : (role(n) \in roles \/ focusable(n)) /\ IsSome(n.nodeId))
    IN  JArr([i \in DOMAIN kept |->
                JObj([node_id |-> JStr(Unwrap(kept[i].nodeId)),
                      role |-> JStr(role(kept[i])),
                      name |-> IF IsSome(kept[i].name) THEN JStr(Unwrap(kept[i].name)) ELSE JNull,
                      value |-> JNull,
                      bounds |-> JNull,
                      focusable |-> JBool(focusable(kept[i]))])])

\* extract_interactables is applied to the tree of an observation
apply_extract_interactables ==
    /\ call.fn = "extract_interactables"
    /\ call.output = None
    /\ call' = [call EXCEPT !.output = Some(extract_interactables(call.input))]
    /\ UNCHANGED <<app_vars, cdp_vars>>

\* ------------------------------------------------------------------------
\* Key combinations of the desktop driver (windows_ui.rs, lines 476-495,
\* 497-519 and 1065-1096)
\* ------------------------------------------------------------------------
\* press_key_combo(modifiers, key). SendInput is called once per key_down,
\* press_vk and key_up; fail_at is the call (counted from 1) that the system
\* refuses, 0 when none is. The result, and the key events the system
\* received, in order
press_key_combo(modifiers, key, fail_at) ==
    LET modifier_to_vk(m) ==
            CASE to_lowercase(m) \in {<<"c", "t", "r", "l">>, <<"c", "o", "n", "t", "r", "o", "l">>} -> Ok("VK_CONTROL")
              [] to_lowercase(m) = <<"s", "h", "i", "f", "t">> -> Ok("VK_SHIFT")
              [] to_lowercase(m) = <<"a", "l", "t">> -> Ok("VK_MENU")
              [] OTHER -> Err(<<"U", "n", "k", "n", "o", "w", "n", " ", "m", "o", "d", "i", "f", "i", "e", "r", ":", " ">> \o m)
        key_name_to_vk(k) ==
            CASE to_lowercase(k) \in {<<"e", "n", "t", "e", "r">>, <<"r", "e", "t", "u", "r", "n">>} -> Ok("VK_RETURN")
              [] to_lowercase(k) = <<"t", "a", "b">> -> Ok("VK_TAB")
              [] to_lowercase(k) \in {<<"e", "s", "c", "a", "p", "e">>, <<"e", "s", "c">>} -> Ok("VK_ESCAPE")
              [] to_lowercase(k) = <<"b", "a", "c", "k", "s", "p", "a", "c", "e">> -> Ok("VK_BACK")
              [] to_lowercase(k) \in {<<"d", "e", "l", "e", "t", "e">>, <<"d", "e", "l">>} -> Ok("VK_DELETE")
              [] to_lowercase(k) \in {<<"u", "p">>, <<"a", "r", "r", "o", "w", "u", "p">>} -> Ok("VK_UP")
              [] to_lowercase(k) \in {<<"d", "o", "w", "n">>, <<"a", "r", "r", "o", "w", "d", "o", "w", "n">>} -> Ok("VK_DOWN")
              [] to_lowercase(k) \in {<<"l", "e", "f", "t">>, <<"a", "r", "r", "o", "w", "l", "e", "f", "t">>} -> Ok("VK_LEFT")
              [] to_lowercase(k) \in {<<"r", "i", "g", "h", "t">>, <<"a", "r", "r", "o", "w", "r", "i", "g", "h", "t">>} -> Ok("VK_RIGHT")
              [] to_lowercase(k) = <<"h", "o", "m", "e">> -> Ok("VK_HOME")
              [] to_lowercase(k) = <<"e", "n", "d">> -> Ok("VK_END")
              [] to_lowercase(k) = <<"s", "p", "a", "c", "e">> -> Ok("VK_SPACE")
              [] utf8_len(to_lowercase(k)) = 1 -> Ok(to_uppercase(to_lowercase(k))[1])
              [] OTHER -> Err(<<"U", "n", "k", "n", "o", "w", "n", " ", "k", "e", "y", ":", " ">> \o k)
        n == Len(modifiers)
        \* the steps of the function body, in program order
        steps == [i \in 1..n |-> <<"key_down", modifier_to_vk(modifiers[i])>>]
                     \o << <<"press_vk", key_name_to_vk(key)>> >>
                     \o [i \in 1..n |-> <<"key_up", modifier_to_vk(modifiers[n + 1 - i])>>]
        RECURSIVE run(_, _)
        run(i, events) ==
            IF i > Len(steps) THEN [result |-> Ok(<<>>), events |-> events]
            ELSE IF ~IsOk(steps[i][2]) THEN [result |-> steps[i][2], events |-> events]
            ELSE IF i = fail_at
            THEN [result |-> Err(CASE steps[i][1] = "key_down" -> <<"F", "a", "i", "l", "e", "d", " ", "t", "o", " ", "k", "e", "y", " ", "d", "o", "w", "n">>
                                   [] steps[i][1] = "press_vk" -> <<"F", "a", "i", "l", "e", "d", " ", "t", "o", " ", "p", "r", "e", "s", "s", " ", "k", "e", "y">>
                                   [] OTHER -> <<"F", "a", "i", "l", "e", "d", " ", "t", "o", " ", "k", "e", "y", " ", "u", "p">>),
                  events |-> events]
            ELSE run(i + 1,
                     events \o (CASE steps[i][1] = "key_down" -> << <<"down", steps[i][2][2]>> >>
                                  [] steps[i][1] = "press_vk" -> << <<"down", steps[i][2][2]>>,
                                                                     <<"up", steps[i][2][2]>> >>
                                  [] OTHER -> << <<"up", steps[i][2][2]>> >>))
    IN  run(1, <<>>)

\* press_key_combo is applied to up to MaxModifiers modifier names and a key
\* name, known or not, with or without a refused input call
apply_press_key_combo ==
    /\ call.fn = "press_key_combo"
    /\ call.output = None
    /\ call' = [call EXCEPT !.output =
                    Some(press_key_combo(call.input.modifiers, call.input.key,
                                         call.input.fail_at))]
    /\ UNCHANGED <<app_vars, cdp_vars>>

\* ------------------------------------------------------------------------
\* XPath lookup of the browser driver (chrome_cdp.rs, lines 207-230)
\* ------------------------------------------------------------------------
\* find_by_xpath(xpath). search is Chrome's reply to DOM.performSearch
\* (searchId, if it holds one, and resultCount), node_ids the nodeIds of
\* its reply to DOM.getSearchResults; fail_at is the send (counted from 1)
\* that returns an error (Chrome answers the command with an error, or the
\* socket fails), 0 when none does. The result, and the commands
\* handed to send, in order
find_by_xpath(search, node_ids, fail_at) ==
    LET failed(sent) == [result |-> Err(BrowserError.SendFailed), calls |-> sent]
        discard == <<"DOM.discardSearchResults", search.searchId>>
        s1 == << <<"DOM.enable">> >>
        s2 == s1 \o << <<"DOM.getDocument">> >>
        s3 == s2 \o << <<"DOM.performSearch">> >>
    IN  IF fail_at = 1 THEN failed(s1)
        ELSE IF fail_at = 2 THEN failed(s2)
        ELSE IF fail_at = 3 THEN failed(s3)
        ELSE IF ~IsSome(search.searchId)
        THEN [result |-> Err(BrowserError.NoSearchId), calls |-> s3]
        ELSE IF search.resultCount = 0
        THEN IF fail_at = 4 THEN failed(s3 \o <<discard>>)
             ELSE [result |-> Err(BrowserError.XPathNotFound), calls |-> s3 \o <<discard>>]
        ELSE LET s4 == s3 \o << <<"DOM.getSearchResults", search.searchId>> >>
             IN  IF fail_at = 4 THEN failed(s4)
                 ELSE IF fail_at = 5 THEN failed(s4 \o <<discard>>)
                 ELSE [result |-> IF node_ids # <<>> THEN Ok(node_ids[1])
                                  ELSE Err(BrowserError.NoNodeFound),
                       calls |-> s4 \o <<discard>>]

\* find_by_xpath is applied to a search of up to MaxCdpNodes results
apply_find_by_xpath ==
    /\ call.fn = "find_by_xpath"
    /\ call.output = None
    /\ call' = [call EXCEPT !.output =
                    Some(find_by_xpath(call.input.search, call.input.node_ids,
                                       call.input.fail_at))]
    /\ UNCHANGED <<app_vars, cdp_vars>>

\* ------------------------------------------------------------------------
\* Session statistics (logging.rs, lines 193-246)
\* ------------------------------------------------------------------------
\* analyze_history: the counters and streaks of SessionStats, as the loop
\* over the entries computes them
analyze_history(entries) ==
    LET RECURSIVE fold(_, _)
        fold(i, st) ==
            IF i > Len(entries) THEN st
            ELSE IF entries[i].success
            THEN fold(i + 1,
                      IF st.current_streak >= 0
                      THEN [st EXCEPT !.successful_actions = @ + 1,
                                      !.current_streak = @ + 1,
                                      !.temp_streak = @ + 1,
                                      !.longest_success =
                                          IF st.temp_streak + 1 > @ THEN st.temp_streak + 1 ELSE @]
                      ELSE [st EXCEPT !.successful_actions = @ + 1,
                                      !.current_streak = 1,
                                      !.temp_streak = 1])
            ELSE fold(i + 1,
                      [st EXCEPT !.failed_actions = @ + 1,
                                 !.current_streak = IF @ <= 0 THEN @ - 1 ELSE 0 - 1,
                                 !.temp_streak = 0])
        end == fold(1, [successful_actions |-> 0, failed_actions |-> 0, current_streak |-> 0,
                        temp_streak |-> 0, longest_success |-> 0])
    IN  [total_actions |-> Len(entries),
         successful_actions |-> end.successful_actions,
         failed_actions |-> end.failed_actions,
         current_streak |-> end.current_streak,
         longest_success_streak |-> end.longest_success]

\* analyze_history is applied to a history of up to MaxRecent entries, each
\* successful or failed
apply_analyze_history ==
    /\ call.fn = "analyze_history"
    /\ call.output = None
    /\ call' = [call EXCEPT !.output = Some(analyze_history(call.input))]
    /\ UNCHANGED <<app_vars, cdp_vars>>

\* ------------------------------------------------------------------------
\* The inputs the functions are applied to
\* ------------------------------------------------------------------------
\* the sequences of up to n elements of S
RECURSIVE SeqsUpTo(_, _)
SeqsUpTo(S, n) ==
    IF n = 0 THEN {<<>>}
    ELSE SeqsUpTo(S, n - 1)
             \cup {Append(s, e) : s \in {x \in SeqsUpTo(S, n - 1) : Len(x) = n - 1}, e \in S}

\* the entries the histories are made of: failures that teach two things,
\* one thing or nothing, and a success
Entries ==
    LET Entry(action_type, target, success, error) ==
            HistoryEntry(1, None, <<>>, ActionCommand(action_type, JStr(target), None, None),
                         success, error, "desktop", <<>>)
    IN  {Entry(<<"c", "l", "i", "c", "k">>, <<"n", "a", "m", "e", ":", "a">>,
               FALSE, Some(<<"n", "o", "t", " ", "f", "o", "u", "n", "d", ":", " ", "t", "i", "m", "e", "o", "u", "t">>)),
         Entry(<<"h", "o", "v", "e", "r">>, <<"n", "a", "m", "e", ":", "c">>,
               FALSE, Some(<<"n", "o", "t", " ", "f", "o", "u", "n", "d", ":", " ", "t", "i", "m", "e", "o", "u", "t">>)),
         Entry(<<"t", "y", "p", "e">>, <<"b">>,
               FALSE, Some(<<"n", "o", "t", " ", "f", "o", "u", "n", "d", ":", " ", "t", "i", "m", "e", "o", "u", "t">>)),
         Entry(<<"c", "l", "i", "c", "k">>, <<"n", "a", "m", "e", ":", "a">>,
               FALSE, Some(DesktopError.NotFoundByName)),
         Entry(<<"c", "l", "i", "c", "k">>, <<"c", "o", "o", "r", "d", "s", ":", "1", ",", "2">>,
               FALSE, Some(Learn.NotFound)),
         Entry(<<"t", "y", "p", "e">>, <<"b">>,
               FALSE, Some(Learn.Timeout)),
         Entry(<<"c", "l", "i", "c", "k">>, <<"b">>, TRUE, None)}

\* parse_response: a type action on any target of up to MaxText characters
\*   (letters, braces, grave accents), in each of the three wrappings;
\* execute_llm_action: each pointer action, in each mode, at each point of a
\*   screen of (MaxCoord + 1) x (MaxCoord + 1) points;
\* format_history: the histories of up to MaxHistory of the Entries;
\* truncate_str, truncate: a string of up to MaxText code points of 1, 2
\*   and 4 bytes and a limit of up to MaxLimit bytes;
\* recent_actions: one entry whose target is up to MaxRepeat times a code
\*   point of 1, 3 or 4 bytes; and the histories of up to MaxRecent
\*   successful entries, each in desktop or browser mode;
\* check_goal_in_a11y: a goal of up to two words (a stop word, a keyword,
\*   a word of 2 bytes, a word of one code point of 3 bytes) and an
\*   observation with or without a URL, whose tree is empty, flat or nested;
\* extract_interactables: a desktop tree of three levels whose root has any
\*   role, name and focusability and whose middle node has a name of 0, 1
\*   or about short_name characters; a flat desktop tree of about
\*   max_elements nodes (up to MaxNodes); the tree the browser driver makes
\*   of up to MaxCdpNodes nodes of Accessibility.getFullAXTree;
\* targeted_action: each action kind that takes a target, in each mode, on
\*   a target that is not a string, empty, or of one of the forms ax:,
\*   xpath:, CSS selector, name:, node id, coords: (well or ill formed),
\*   with or without a text parameter;
\* press_key_combo: up to MaxModifiers modifier names and a key name, known
\*   or not, and the input call the system refuses, if any;
\* find_by_xpath: a search reply with or without a searchId and with up to
\*   MaxCdpNodes results, a results reply with or without a node id, and
\*   the send that fails, if any;
\* analyze_history: the histories of up to MaxRecent entries, each
\*   successful or failed
Calls ==
    LET Node(node_id, role, name, focusable, children) ==
            JObj([node_id |-> JStr(node_id), role |-> JStr(role), name |-> JStr(name),
                  focusable |-> JBool(focusable), children |-> JArr(children)])
    IN
    {[fn |-> "parse_response",
      input |-> [action |-> ActionCommand(<<"t", "y", "p", "e">>, JStr(s), None, None),
                 wrapping |-> w],
      output |-> None] :
        s \in SeqsUpTo({"a", "{", "}", "U+0060"}, MaxText), w \in {"fence", "alone", "prose"}}
    \cup
    {[fn |-> "execute_llm_action",
      input |-> [mode |-> mode, action_type |-> a, x |-> x, y |-> y],
      output |-> None] :
        mode \in {"desktop", "browser"}, a \in PointerActions,
        x \in 0..MaxCoord, y \in 0..MaxCoord}
    \cup
    {[fn |-> "format_history", input |-> h, output |-> None] :
        h \in SeqsUpTo(Entries, MaxHistory)}
    \cup
    {[fn |-> f, input |-> [s |-> s, max |-> max], output |-> None] :
        f \in {"truncate_str", "truncate"},
        s \in SeqsUpTo({"a", "U+00E9", "U+1F600"}, MaxText), max \in 0..MaxLimit}
    \cup
    {[fn |-> "recent_actions",
      input |-> <<HistoryEntry(1, None, <<"o", "k">>,
                               ActionCommand(<<"t", "y", "p", "e">>, JStr([i \in 1..k |-> c]),
                                             None, None),
                               TRUE, None, "desktop", <<>>)>>,
      output |-> None] :
        c \in {"a", "U+20AC", "U+1F600"}, k \in 0..MaxRepeat}
    \cup
    {[fn |-> "recent_actions",
      input |-> [i \in 1..n |->
                    HistoryEntry(i, None, <<"o", "k">>,
                                 ActionCommand(<<"t", "y", "p", "e">>, JStr(<<"b">>), None, None),
                                 TRUE, None, IF i \in B THEN "browser" ELSE "desktop", <<>>)],
      output |-> None] :
        n \in 0..MaxRecent, B \in SUBSET (1..MaxRecent)}
    \cup
    {[fn |-> "check_goal_in_a11y",
      input |-> [goal |-> w1 \o <<" ">> \o w2,
                 state |-> [accessibility_tree |-> tree, active_window |-> title, url |-> url]],
      output |-> None] :
        w1 \in {<<>>, <<"o", "p", "e", "n">>, <<"C", "a", "t">>, <<"a", "b">>, <<"U+20AC">>, <<"C", "h", "r", "o", "m", "e">>},
        w2 \in {<<>>, <<"o", "p", "e", "n">>, <<"C", "a", "t">>, <<"a", "b">>, <<"U+20AC">>, <<"C", "h", "r", "o", "m", "e">>},
        title \in {<<"C", "a", "t", "s">>, <<"U+20AC", "5">>, Input.TitleDesktop},
        url \in {None, Some(<<"q", "=", "c", "a", "t">>)},
        tree \in {JNull,
                  JArr(<<AXNode(<<"1">>, <<"B", "u", "t", "t", "o", "n">>, Input.NameStart, <<>>)>>),
                  JArr(<<AXNode(<<"1">>, <<"P", "a", "n", "e">>, <<>>,
                                <<AXNode(<<"2">>, <<"B", "u", "t", "t", "o", "n">>, <<"C", "a", "t", " ", "f", "o", "o", "d">>, <<>>)>>)>>)}}
    \cup
    {[fn |-> "extract_interactables",
      input |-> JArr(<<Node(<<"1">>, g_role, g_name, g_focusable,
                            <<Node(<<"2">>, p_role, [i \in 1..k |-> "x"], FALSE,
                                   <<Node(<<"3">>, <<"B", "u", "t", "t", "o", "n">>, <<"G", "o">>, FALSE, <<>>),
                                     Node(<<"4">>, <<"T", "e", "x", "t">>, <<"G", "o">>, FALSE, <<>>)>>),
                              Node(<<"5">>, <<"H", "y", "p", "e", "r", "l", "i", "n", "k">>, <<"G", "o">>, FALSE, <<>>)>>)>>),
      output |-> None] :
        g_role \in {<<>>, <<"W", "i", "n", "d", "o", "w">>}, g_name \in {<<>>, <<"W", "i", "n">>}, g_focusable \in BOOLEAN,
        p_role \in {<<>>, <<"P", "a", "n", "e">>},
        k \in {0, 1, short_name - 1, short_name, short_name + 1}}
    \cup
    {[fn |-> "extract_interactables",
      input |-> JArr([i \in 1..n |->
                        Node(to_string(i), IF i \in D THEN <<"P", "a", "n", "e">> ELSE <<"B", "u", "t", "t", "o", "n">>,
                             <<"G", "o">>, FALSE, <<>>)]),
      output |-> None] :
        n \in (MaxNodes - 3)..MaxNodes, D \in {{}, {2}}}
    \cup
    {[fn |-> "extract_interactables", input |-> get_a11y_tree(nodes), output |-> None] :
        nodes \in SeqsUpTo({[nodeId |-> Some(<<"7">>), role |-> Some(role), name |-> name,
                             focusable |-> Some(focusable)] :
                                role \in {<<"l", "i", "n", "k">>, <<"g", "e", "n", "e", "r", "i", "c">>},
                                name \in {None, Some(<<"G", "o">>)},
                                focusable \in BOOLEAN},
                           MaxCdpNodes)}
    \cup
    {[fn |-> "targeted_action",
      input |-> [mode |-> mode, action_type |-> a, target |-> target, params |-> params,
                 node |-> node],
      output |-> None] :
        mode \in {"desktop", "browser"},
        a \in PointerActions \cup {"type", "clear"},
        target \in {JNull, JStr(<<>>), JStr(<<"a", "x", ":", "7">>), JStr(<<"x", "p", "a", "t", "h", ":", "/", "/", "a">>), JStr(<<"#", "g", "o">>),
                    JStr(Input.TargetNameGo), JStr(<<"4", "2">>), JStr(<<"c", "o", "o", "r", "d", "s", ":", "1", ",", "2">>),
                    JStr(<<"c", "o", "o", "r", "d", "s", ":", "1">>)},
        params \in {None, Some(JObj([text |-> JStr(<<"h", "i">>)]))},
        node \in {"absent", "no_bounds", "found"}}
    \cup
    {[fn |-> "press_key_combo",
      input |-> [modifiers |-> modifiers, key |-> key, fail_at |-> fail_at],
      output |-> None] :
        modifiers \in SeqsUpTo({<<"C", "t", "r", "l">>, <<"s", "h", "i", "f", "t">>, <<"W", "i", "n">>}, MaxModifiers),
        key \in {<<"a">>, <<"E", "n", "t", "e", "r">>, <<"F", "5">>},
        fail_at \in 0..(2 * MaxModifiers + 1)}
    \cup
    {[fn |-> "find_by_xpath",
      input |-> [search |-> [searchId |-> id, resultCount |-> n],
                 node_ids |-> node_ids, fail_at |-> fail_at],
      output |-> None] :
        id \in {None, Some(<<"s", "1">>)}, n \in 0..MaxCdpNodes,
        node_ids \in {<<>>, <<7>>}, fail_at \in 0..5}
    \cup
    {[fn |-> "analyze_history",
      input |-> [i \in 1..n |->
                    HistoryEntry(i, None, <<"o", "k">>,
                                 ActionCommand(<<"t", "y", "p", "e">>, JStr(<<"b">>), None, None),
                                 i \notin F, IF i \in F THEN Some(BrowserError.NotFound) ELSE None,
                                 "browser", <<>>)],
      output |-> None] :
        n \in 0..MaxRecent, F \in SUBSET (1..MaxRecent)}

\* ------------------------------------------------------------------------
\* Specifications
\* ------------------------------------------------------------------------
\* the steps of the approve_action invocation in slot r
ApproveNext(r, acts, retry_acts) ==
    \/ \E approved \in BOOLEAN : approve_action(r, approved)
    \/ detect_initial(r)
    \/ observe_initial(r)
    \/ execute(r)
    \/ retry_reply(r, retry_acts)
    \/ observe_fresh(r)
    \/ detect_new_mode(r)
    \/ observe_threshold(r)
    \/ observe_failed(r)
    \/ next_reply(r, acts)

\* the steps of the other commands
CommandNext(acts) ==
    \/ save_api_key
    \/ \E command \in Goals : execute_user_command(command)
    \/ execute_user_command_observed
    \/ execute_user_command_reply(acts)
    \/ get_history
    \/ get_history_analysis

\* Spec: one goal, one approve_action invocation, a model that answers with
\* any of Replies.Plan, MaxIncidents things going wrong and MaxStalls
\* actions without effect
Init ==
    /\ InitProgram
    /\ budget = Budget(MaxIncidents, MaxStalls, 1, 1, 0, MaxPlan)
    /\ connect
    /\ call = NoCall

Next ==
    \/ CommandNext(Replies.Plan)
    \/ EnvFlip
    \/ ApproveNext("r1", Replies.Plan, Replies.Plan)

Spec == Init /\ [][Next]_vars

\* SpecUI: the UI issues its commands concurrently: two approve_action
\* invocations and clear_history interleave at every suspension point; the
\* machine and the model behave (no incident, no stall)
InitUI ==
    /\ InitProgram
    /\ budget = Budget(0, 0, Cardinality(Runs), 1, MaxClears, MaxUIPlan)
    /\ connect
    /\ call = NoCall

NextUI ==
    \/ CommandNext(Replies.UIFirst)
    \/ clear_history
    \/ \E r \in Runs : ApproveNext(r, Replies.UI, Replies.UIRetry)

SpecUI == InitUI /\ [][NextUI]_vars

\* SpecBudget: the model never signals completion (it keeps answering
\* navigate, which the desktop driver refuses and the browser driver
\* performs), so that the loop runs to its step budget
InitBudget ==
    /\ InitProgram
    /\ budget = Budget(MaxIncidents, 0, 1, 1, 0, NoPlanLimit)
    /\ connect
    /\ call = NoCall

NextBudget ==
    \/ CommandNext(Replies.Budget)
    \/ EnvFlip
    \/ ApproveNext("r1", Replies.Budget, Replies.Budget)

SpecBudget == InitBudget /\ [][NextBudget]_vars

\* SpecReturns: SpecBudget, with every external call of the invocation
\* returning: the mode probe, the observation, the driver and the model
\* each answer, with a result or with an error, so that the step of
\* approve_action that waits for the answer is taken
SpecReturns ==
    /\ InitBudget
    /\ [][NextBudget]_vars
    /\ WF_vars(ApproveNext("r1", Replies.Budget, Replies.Budget))

\* SpecGoals: the user enters up to MaxGoals goals one after another and
\* approves once; the model answers navigate while its plan lasts and MaxIncidents
\* things go wrong (a failed observation, a failed model request)
InitGoals ==
    /\ InitProgram
    /\ budget = Budget(MaxIncidents, 0, 1, MaxGoals, 0, MaxPlan)
    /\ connect
    /\ call = NoCall

NextGoals ==
    \/ CommandNext(Replies.Budget)
    \/ EnvFlip
    \/ ApproveNext("r1", Replies.Budget, Replies.Budget)

SpecGoals == InitGoals /\ [][NextGoals]_vars

\* SpecCdp: the tasks of Callers call send on one connection, up to MaxSends
\* times each; Chrome answers every command, emits up to MaxEvents events,
\* and the socket may close or break at any moment. The tokio runtime polls
\* every task that can proceed and Chrome answers what it received.
InitCdp ==
    /\ InitProgram
    /\ budget = Budget(0, 0, 0, 0, 0, 0)
    /\ connect
    /\ call = NoCall

NextCdp ==
    \/ \E c \in Callers : send(c)
    \/ chrome_reply
    \/ chrome_event
    \/ ws_end
    \/ ws_fail

SpecCdp ==
    /\ InitCdp
    /\ [][NextCdp]_vars
    /\ \A c \in Callers : WF_vars(send(c))
    /\ WF_vars(chrome_reply)

\* SpecFn: a function of the program is applied on its own to one of the
\* inputs drawn for it
InitFn ==
    /\ InitProgram
    /\ budget = Budget(0, 0, 0, 0, 0, 0)
    /\ connect
    /\ call \in Calls

NextFn ==
    \/ apply_parse_response
    \/ apply_execute_llm_action
    \/ apply_format_history
    \/ apply_truncate_str
    \/ apply_truncate
    \/ apply_recent_actions
    \/ apply_check_goal_in_a11y
    \/ apply_extract_interactables
    \/ apply_targeted_action
    \/ apply_press_key_combo
    \/ apply_find_by_xpath
    \/ apply_analyze_history

SpecFn == InitFn /\ [][NextFn]_vars

\* ------------------------------------------------------------------------
\* Claims
\* ------------------------------------------------------------------------
\* C1, as stated: one approve_action(true) run that starts from the empty
\* history execute_user_command leaves never records more than max_steps
\* distinct step numbers, the synthesized smart_complete / auto_complete
\* entry included. (SpecBudget has one goal and one invocation.)
C1_AtMostMaxStepNumbers ==
    Cardinality({history[i].step_number : i \in DOMAIN history}) <= max_steps

\* C2, as stated: every action handed to execute_action_auto was the pending
\* action at the approve_action(true) call: the first action, the actions of
\* later steps and the replacement actions of retry prompts alike.
C2_ExecutedWasPending ==
    \A r \in Runs :
        task[r].pc = "execute" => task[r].action_to_try = task[r].action

\* C2, amended: an action is handed to execute_action_auto only inside an
\* approve_action(true) invocation that read a pending action, and the first
\* action that invocation executes is the pending action it read; the
\* actions of later steps and of retry prompts are executed without having
\* been pending.
C2_FirstExecutedWasPending ==
    \A r \in Runs :
        task[r].pc = "execute" =>
            /\ task[r].action # NoAction
            /\ task[r].action \in Replies.Plan
            /\ (task[r].loop_iter = 0 /\ task[r].retry_count = 1
                    => task[r].action_to_try = task[r].action)

\* C2, witness: the first attempt of the first iteration is about to run
C2_FirstAttemptRuns ==
    /\ task["r1"].pc = "execute"
    /\ task["r1"].loop_iter = 0
    /\ task["r1"].retry_count = 1
    /\ task["r1"].action_to_try = Unwrap(pending_action)

\* C3, as stated: between one execute_user_command and the next, under every
\* interleaving of the UI commands, the history never gets shorter and a
\* recorded entry never changes, except for the token counts written onto
\* the entry that is last at that moment.
C3_HistoryAppendOnly ==
    [][budget'.goals = budget.goals =>
        /\ Len(history') >= Len(history)
        /\ \A i \in DOMAIN history :
            /\ [history'[i] EXCEPT !.input_tokens = None, !.output_tokens = None]
                   = [history[i] EXCEPT !.input_tokens = None, !.output_tokens = None]
            /\ i < Len(history) => history'[i] = history[i]]_vars

\* C3, amended: clear_history empties the history whenever the UI calls it,
\* also while a loop runs; every step other than clear_history and
\* execute_user_command leaves the history at least as long, changes no
\* recorded entry but the one that is last at that moment, and changes only
\* the token counts of that one.
C3_AppendOnlyUnlessCleared ==
    [][budget'.goals = budget.goals =>
        IF budget'.clears # budget.clears
        THEN history' = <<>>
        ELSE /\ Len(history') >= Len(history)
             /\ \A i \in DOMAIN history :
                 /\ [history'[i] EXCEPT !.input_tokens = None, !.output_tokens = None]
                        = [history[i] EXCEPT !.input_tokens = None, !.output_tokens = None]
                 /\ i < Len(history) => history'[i] = history[i]]_vars

\* C3, witness: the history was cleared while a loop was running, the loop
\* went on appending (its entry kept the step number counted before the
\* clear) and back-filled the token counts
C3_ClearedWhileLooping ==
    /\ budget.clears < MaxClears
    /\ Len(history) >= 2
    /\ history[1].step_number > 1
    /\ history[1].input_tokens # None

\* C4, as stated: at any instant at most one approve_action loop is
\* observing, deciding or executing: two concurrent approve_action(true)
\* calls cannot both read the same pending action and both run it.
C4_OneLoopAtATime ==
    \A r, q \in Runs :
        (task[r].pc # "idle" /\ task[q].pc # "idle") => r = q

\* C5, as stated: when approve_action(true) has entered the loop and has
\* returned, with Ok or with Err, the last history entry is a complete,
\* smart_complete or auto_complete entry, or a failed primitive action (the
\* loop records one only after max_retries_per_step attempts), or all
\* max_steps iterations were run. (Spec has no step after the return that
\* writes the history.)
C5_ReturnLeavesTerminalEntry ==
    \A r \in Runs :
        (task[r].pc = "idle" /\ task[r].result.in_loop) =>
            \/ task[r].result.loop_iter >= max_steps
            \/ /\ history # <<>>
               /\ \/ history[Len(history)].action.action_type
                         \in {"complete", "smart_complete", "auto_complete"}
                  \/ ~history[Len(history)].success

\* C6, as stated: the observation in the prompt for step N > 1 was captured
\* after the execution and settle of step N-1's last attempt, also when the
\* observation after a successful action fails.
C6_PromptObservationFresh ==
    \A r \in Runs :
        task[r].pc = "next_llm" =>
            /\ Unwrap(task[r].request).state = task[r].current_state
            /\ task[r].observed = "fresh"

\* C6, amended: the prompt for the next step carries the loop's current
\* state. After a step that failed, that state was observed after the last
\* attempt. After a step that succeeded, it is the state observed after the
\* execution and settle if that observation returned, and the state the
\* loop held before the execution if that observation failed.
C6_FreshUnlessObservationFailed ==
    [][\A r \in Runs :
        /\ (task[r].pc = "observe_fresh" /\ task'[r].pc = "detect_new_mode") =>
               task'[r].fresh_state =
                   IF budget' = budget THEN get_current_state_auto(chrome, page)
                                       ELSE task[r].current_state
        /\ (task[r].pc = "detect_new_mode" /\ task'[r].pc = "next_llm") =>
               /\ task'[r].current_state = task[r].fresh_state
               /\ task'[r].observed \in {"fresh", "fallback"}
        /\ (task[r].pc = "observe_failed" /\ task'[r].pc = "next_llm") =>
               /\ task'[r].current_state = get_current_state_auto(chrome, page)
               /\ task'[r].observed = "fresh"
        /\ task'[r].pc = "next_llm" =>
               Unwrap(task'[r].request).state = task'[r].current_state]_vars

\* C6, witness: a step succeeded, the observation after it failed, and the
\* next prompt carries a state that shows the screen as it was before
C6_PromptCarriesPreviousState ==
    /\ task["r1"].pc = "next_llm"
    /\ task["r1"].observed = "fallback"
    /\ task["r1"].action_succeeded
    /\ Unwrap(task["r1"].request).state # get_current_state_auto(chrome, page)

\* C7, as stated: the mode of every entry the loop writes for an executed
\* step is the result of the mode probe made inside execute_action_auto
\* immediately before the action ran, also when the action changes the mode
\* and also for failure entries.
C7_EntryModeIsExecutionProbe ==
    [][\A r \in Runs :
        (\/ task[r].pc = "detect_new_mode" /\ task'[r].pc # "detect_new_mode"
         \/ task[r].pc = "execute" /\ task'[r].pc = "observe_failed") =>
            history'[Len(history')].mode = task[r].exec_mode]_vars

\* C7, amended: the entry of a successful step carries the result of the
\* mode probe made after the action ran and settled (a desktop step that
\* launches a browser is recorded as a browser step); the entry of a failed
\* step carries the mode the loop tracked when the step began: the initial
\* probe, or the probe after the last successful step.
C7_EntryModeIsTrackedMode ==
    [][\A r \in Runs :
        /\ (task[r].pc = "detect_new_mode" /\ task'[r].pc # "detect_new_mode") =>
               /\ history' = Append(history, history'[Len(history')])
               /\ history'[Len(history')].mode = detect_automation_mode(chrome)
               /\ task'[r].current_mode_str = detect_automation_mode(chrome)
        /\ (task[r].pc = "execute" /\ task'[r].pc = "observe_failed") =>
               /\ history' = Append(history, history'[Len(history')])
               /\ history'[Len(history')].mode = task[r].current_mode_str]_vars

\* C7, witness: a desktop step launched the browser and its entry says browser
C7_LaunchRecordedAsBrowser ==
    \E i \in DOMAIN history :
        /\ history[i].action.action_type = "launch_browser"
        /\ history[i].success
        /\ history[i].mode = "browser"
        /\ contains(history[i].llm_reasoning, Text.ModeOpen \o Text.Desktop)

\* C8, as stated: the orchestrator synthesizes a completion and ends the
\* goal if and only if auto_complete_threshold consecutive steps succeeded
\* and a goal keyword occurs in the fresh observation; with the successes
\* and no keyword it does not.
C8_TriggersOnlyWithKeyword ==
    [][\A r \in Runs :
        (task[r].pc = "observe_threshold" /\ task'[r].pc = "idle") =>
            check_goal_in_a11y(task[r].goal,
                IF budget' = budget THEN get_current_state_auto(chrome, page)
                                    ELSE task[r].current_state)]_vars

\* C8, amended: the orchestrator synthesizes a completion and ends the run
\* if and only if the step succeeded and auto_complete_threshold consecutive
\* steps have succeeded; the keyword check decides only what is recorded:
\* a successful smart_complete entry when a keyword occurs in the
\* observation, a failed auto_complete entry carrying the [INCOMPLETE] error
\* when none does.
C8_ThresholdAloneTriggers ==
    [][\A r \in Runs :
        /\ (task[r].pc = "detect_new_mode" /\ task'[r].pc # "detect_new_mode") =>
               (task'[r].pc = "observe_threshold"
                    <=> task'[r].consecutive_successes >= auto_complete_threshold)
        /\ (task[r].pc = "execute" /\ task'[r].pc # "execute") =>
               task'[r].pc # "observe_threshold"
        /\ (task[r].pc = "observe_threshold" /\ task'[r] # task[r]) =>
               LET goal_achieved ==
                       check_goal_in_a11y(task[r].goal,
                           IF budget' = budget THEN get_current_state_auto(chrome, page)
                                               ELSE task[r].current_state)
                   entry == history'[Len(history')]
               IN  /\ task'[r].pc = "idle"
                   /\ task'[r].result.kind = "Ok"
                   /\ pending_action' = None
                   /\ history' = Append(history, entry)
                   /\ entry.success = goal_achieved
                   /\ entry.action.action_type =
                          (IF goal_achieved THEN "smart_complete" ELSE "auto_complete")
                   /\ entry.error = (IF goal_achieved THEN None ELSE Some(Text.Incomplete))]_vars

\* C8, witness: three steps succeeded, no goal keyword was on the screen,
\* and the run ended with a synthesized auto_complete entry
C8_TriggeredWithoutKeyword ==
    /\ task["r1"].pc = "idle"
    /\ task["r1"].result.kind = "Ok"
    /\ Len(history) = auto_complete_threshold + 1
    /\ history[Len(history)].action.action_type = "auto_complete"
    /\ ~history[Len(history)].success
    /\ ~check_goal_in_a11y(Unwrap(current_goal), task["r1"].result.state)

\* C9, as stated: a complete action the model returns, from a next-action
\* prompt or from a retry prompt, is never handed to a driver and is never
\* recorded as a failed step.
C9_CompleteNeverExecuted ==
    /\ \A r \in Runs :
           task[r].pc = "execute" => task[r].action_to_try.action_type # "complete"
    /\ \A i \in DOMAIN history :
           history[i].action.action_type = "complete" => history[i].success

\* C10, as stated: a failed execution attempt is recorded as a history
\* entry carrying its error text before the retry prompt for it is sent, so
\* that the next prompt can draw on it.
C10_FailureRecordedBeforeRetry ==
    \A r \in Runs :
        task[r].pc = "retry_llm" =>
            \E i \in DOMAIN history :
                /\ history[i].error = Some(task[r].e)
                /\ history[i].action = task[r].action_to_try

\* C11, as stated: a rejection, approve_action(false), clears the pending
\* action, executes nothing (the invocation never leaves the idle position
\* and the machine is untouched), leaves the goal and the history as they
\* were, and returns to the UI without reporting a failure (its result is
\* not an Err)
C11_RejectionIsNotAFailure ==
    [][\A r \in Runs :
        (task[r].pc = "idle" /\ task'[r] # task[r] /\ task'[r].result.error = "Rejected")
            => /\ pending_action' = None
               /\ task'[r].pc = "idle"
               /\ <<chrome', page'>> = <<chrome, page>>
               /\ <<current_goal', history'>> = <<current_goal, history>>
               /\ task'[r].result.kind # "Err"]_vars

\* C12: within one step the action is handed to execute_action_auto at most
\* max_retries_per_step (5) times and at most max_retries_per_step - 1 (4)
\* retry prompts are sent, whatever the failures: the attempts of a step are
\* numbered 1, 2, ... by retry_count, each retry prompt sent is counted by
\* chunk_index, and both counters start again when a new step begins
C12_AttemptsAndRetryPromptsBounded ==
    [][\A r \in Runs :
        LET t == task[r]
            u == task'[r]
        IN  /\ (t.pc \in {"observe_initial", "next_llm"} /\ u.pc = "execute")
                => (u.retry_count = 1 /\ u.chunk_index = 0)
            /\ (t.pc = "retry_llm" /\ u.pc = "execute")
                => (u.retry_count = t.retry_count + 1 /\ u.chunk_index = t.chunk_index
                    /\ u.step_number = t.step_number)
            /\ (t.pc = "execute" /\ u.pc # "execute")
                => (t.retry_count \in 1..max_retries_per_step
                    /\ t.chunk_index = t.retry_count - 1)
            /\ (t.pc = "execute" /\ u.pc = "retry_llm")
                => (u.chunk_index = t.chunk_index + 1
                    /\ u.chunk_index <= max_retries_per_step - 1
                    /\ u.retry_count = t.retry_count)]_vars

\* C12, witness: a later step of a run is at its last attempt: the action
\* has failed 4 times in this step and 4 retry prompts were answered
C12_FifthAttemptOfLaterStep ==
    \E r \in Runs :
        /\ task[r].pc = "execute"
        /\ task[r].loop_iter >= 1
        /\ task[r].retry_count = max_retries_per_step
        /\ task[r].chunk_index = max_retries_per_step - 1

C14_SessionClearedByNewGoal ==
    [][(euc.pc # "idle" /\ euc'.pc = "idle")
        => /\ history' = <<>>
           /\ euc'.result = "Ok" => IsSome(pending_action')
           /\ euc'.result = "Err" => pending_action' = None]_vars

\* C15, as stated: every send call ends: it returns the result of the frame
\* whose id is the command's id, or it fails; once the WebSocket stream has
\* ended or broken with no matching frame, the call fails with a transport
\* error instead of waiting forever; and a call writes its command frame
\* exactly once
C15_EverySendEnds ==
    \A c \in Callers :
        /\ [](sender[c].written <= 1)
        /\ [](sender[c].pc \in {"lock_read", "next"} => sender[c].written = 1)
        /\ [](IsSome(sender[c].result) /\ IsOk(Unwrap(sender[c].result))
                => Unwrap(sender[c].result)[2] = sender[c].cid)
        /\ (sender[c].pc # "idle") ~> (sender[c].pc = "idle")
        /\ (sender[c].pc # "idle" /\ ~ws.open)
                ~> (sender[c].pc = "idle" /\ sender[c].result = Some(Err("transport")))

\* C16, as stated: at most one command is in flight on a connection: no
\* caller writes its frame while another caller, whose frame is written,
\* has not yet received its reply
C16_OneCommandInFlight ==
    Cardinality({c \in Callers : sender[c].pc \in {"lock_read", "next"}}) <= 1

\* C17, as stated: request/response matching under concurrent callers: a
\* caller returns Ok only with the frame that carries its own id, and a
\* caller never reads and drops a reply that carries the id of another
\* caller still waiting for it
C17_NoReplyOfAnotherDropped ==
    [][\A c \in Callers :
        (sender[c].pc = "next" /\ sender'[c].pc # "next" /\ ws.incoming # <<>>)
            => LET msg == Head(ws.incoming)
               IN  /\ (sender'[c].pc = "idle" /\ msg.kind = "text")
                        => msg.id = Some(sender[c].cid)
                   /\ \A d \in Callers \ {c} :
                        (sender[d].pc \in {"lock_read", "next"} /\ msg.kind = "text")
                            => msg.id # Some(sender[d].cid)]_vars

\* C18, as stated: for every well-formed JSON action, string fields with
\* '{', '}' or a backtick fence in them included, parse_response returns
\* that action from each of the three wrappings: inside a json code fence,
\* alone, and between 'prefix ' and ' suffix'
C18_ParseReturnsTheAction ==
    (call.fn = "parse_response" /\ IsSome(call.output))
        => Unwrap(call.output) = Ok(call.input.action)

\* C19, as stated: in either mode a pointer action (click, double_click,
\* right_click, hover) on the target coords:x,y with integer x and y is
\* carried out at the point (x, y) and at nothing else, no element is
\* looked up, and the action cannot fail with element-not-found
C19_CoordsTargetActsAtThePoint ==
    (call.fn = "execute_llm_action" /\ IsSome(call.output))
        => LET i == call.input
               out == Unwrap(call.output)
           IN  /\ out.calls = << <<i.action_type, i.x, i.y>> >>
               /\ IsOk(out.result)
               /\ out.result \notin {Err(BrowserError.NotFound), Err(DesktopError.NotFoundByName)}

\* C20: for any list of history entries (whose targets and action types
\* hold no line feed), the learnings section that
\* format_history produces (the lines between its header and the empty line
\* that closes it) has at most 5 lines and no two of them are equal
C20_LearningsCappedAndDistinct ==
    (call.fn = "format_history" /\ IsSome(call.output) /\ Unwrap(call.output) # <<>>)
        => LET text == Unwrap(call.output)
               all == split(text, "\n")
               lines == SubSeq(all, 2, Len(all) - 2)
           IN  /\ all[1] \o <<"\n">> = Learn.Header
               /\ all[Len(all) - 1] = <<>> /\ all[Len(all)] = <<>>
               /\ Len(lines) <= 5
               /\ \A i, j \in 1..Len(lines) : lines[i] = lines[j] => i = j
               /\ \A i \in 1..Len(lines) : lines[i] # <<>>

\* C20, witness: the failures of the history teach more than 5 different
\* things, and the section shows 5 lines
C20_SixLearningsFiveLines ==
    /\ call.fn = "format_history"
    /\ IsSome(call.output)
    /\ LET ls == learnings_from(SelectSeq(call.input, LAMBDA e : ~e.success))
       IN  /\ Cardinality({ls[i] : i \in 1..Len(ls)}) > 5
           /\ Len(split(Unwrap(call.output), "\n")) = 5 + 3

\* C21, as stated: every truncation (truncate_str, logging::truncate, the
\* history target shortened to 40 bytes) returns the string unchanged when
\* it fits in the limit, otherwise a prefix of whole code points of at most
\* limit bytes followed by the ellipsis marker; it never aborts
C21_TruncationIsCharBoundarySafe ==
    LET Safe(out, s, limit) ==
            /\ IsSome(out)
            /\ IF utf8_len(s) <= limit THEN Unwrap(out) = s
               ELSE \E k \in 0..Len(s) :
                        /\ utf8_len(SubSeq(s, 1, k)) <= limit
                        /\ Unwrap(out) = SubSeq(s, 1, k) \o <<".", ".", ".">>
    IN  /\ (call.fn \in {"truncate_str", "truncate"} /\ IsSome(call.output))
               => Safe(Unwrap(call.output), call.input.s, call.input.max)
        /\ (call.fn = "recent_actions" /\ IsSome(call.output))
               => IsSome(Unwrap(call.output))

\* C22, as stated: when the consecutive-success counter reaches
\* auto_complete_threshold after a successful step, the loop observes,
\* appends exactly one synthesized entry (smart_complete with success when
\* the goal-keyword check passes, else auto_complete without success and
\* with the [INCOMPLETE] error) and returns without a further prompt to the
\* model; consequently no complete entry issued by the model is preceded in
\* the history by three consecutive successful entries
C22_ThresholdEndsBeforeModelCompletes ==
    [][/\ \A r \in Runs :
            /\ (task[r].pc = "detect_new_mode"
                    /\ task'[r].consecutive_successes = auto_complete_threshold)
                   => task'[r].pc = "observe_threshold"
            /\ (task[r].pc = "observe_threshold" /\ task'[r] # task[r])
                   => LET entry == history'[Len(history')]
                          kind == entry.action.action_type
                      IN  /\ history' = Append(history, entry)
                          /\ task'[r].pc = "idle"
                          /\ task'[r].result.kind = "Ok"
                          /\ \/ kind = "smart_complete" /\ entry.success /\ entry.error = None
                             \/ /\ kind = "auto_complete" /\ ~entry.success
                                /\ IsSome(entry.error)
                                /\ starts_with(Unwrap(entry.error), <<"[", "I", "N", "C">>)
                          /\ entry.success
                                 = check_goal_in_a11y(task[r].goal, task'[r].result.state)
       /\ \A i \in 1..Len(history') :
            (history'[i].action.action_type = "complete" /\ i > auto_complete_threshold)
                => \E j \in (i - auto_complete_threshold)..(i - 1) : ~history'[j].success]_vars

\* C23, as stated: when the 5th attempt of a step fails, exactly one failure
\* entry with the last error is appended, the consecutive-success counter
\* is reset to 0 and the run does not end: the loop observes again and then
\* asks the model for the next action (the 20th iteration apart)
C23_FailedStepAlwaysAsksModel ==
    [][\A r \in Runs :
        LET t == task[r]
            u == task'[r]
        IN  /\ (t.pc = "execute" /\ u.pc \notin {"execute", "observe_fresh", "retry_llm"})
                => /\ t.retry_count = max_retries_per_step
                   /\ history' = Append(history, history'[Len(history')])
                   /\ ~history'[Len(history')].success
                   /\ history'[Len(history')].error = Some(u.e)
                   /\ u.consecutive_successes = 0
                   /\ u.pc = "observe_failed"
            /\ (t.pc = "observe_failed" /\ u # t /\ t.loop_iter + 1 < max_steps)
                => (u.pc = "next_llm" /\ history' = history)]_vars

\* C23, amended: when the 5th attempt of a step fails, exactly one failure
\* entry with the last error is appended, the counter is reset to 0 and the
\* loop observes again. If that observation returns, the model is asked for
\* the next action, in every iteration, the 20th included; if it fails,
\* approve_action returns Err there and then: the model is not asked, the
\* history keeps the failure entry as its last and the pending action stays
C23_FailedStepRecordedLoopGoesOn ==
    [][\A r \in Runs :
        LET t == task[r]
            u == task'[r]
        IN  /\ (t.pc = "execute" /\ u.pc \notin {"execute", "observe_fresh", "retry_llm"})
                => /\ t.retry_count = max_retries_per_step
                   /\ history' = Append(history, history'[Len(history')])
                   /\ ~history'[Len(history')].success
                   /\ history'[Len(history')].error = Some(u.e)
                   /\ u.consecutive_successes = 0
                   /\ u.pc = "observe_failed"
            /\ (t.pc = "observe_failed" /\ u # t)
                => /\ history' = history
                   /\ pending_action' = pending_action
                   /\ IF budget' = budget
                      THEN u.pc = "next_llm" /\ u.loop_iter = t.loop_iter
                      ELSE u.pc = "idle" /\ u.result.kind = "Err" /\ u.result.in_loop]_vars

\* C23, witness: a step failed 5 times and was recorded, the observation
\* that followed failed too, and the run returned Err with the failure
\* entry as the last of the history
C23_ReturnedErrAfterFailedStep ==
    \E r \in Runs :
        /\ task[r].pc = "idle"
        /\ task[r].result.kind = "Err"
        /\ task[r].result.in_loop
        /\ task[r].result.error = "observe"
        /\ history # <<>>
        /\ ~history[Len(history)].success
        /\ IsSome(pending_action)

\* C24, as stated: when an execution fails because the action kind is not
\* available in the current mode (a browser-only action on the desktop
\* driver, a desktop-only action on the browser driver), the step is not
\* retried: no retry prompt is sent for that failure
C24_ModeErrorNotRetried ==
    [][\A r \in Runs :
        (task[r].pc = "execute" /\ task'[r].pc = "retry_llm")
            => task'[r].e \notin {DesktopError.NavigateDesktop,
                                  BrowserError.UnknownLaunchBrowser}]_vars

\* C25, as stated: when the mode probe after a successful step returns a
\* mode b that differs from the mode a the loop tracked just before it, the
\* reasoning of the entry recorded for the step ends with [MODE: a -> b],
\* at every transition of a run, a transition back to the initial mode
\* included
C25_AnnotationNamesModeBefore ==
    [][\A r \in Runs :
        (task[r].pc = "detect_new_mode" /\ task'[r] # task[r]
             /\ task'[r].current_mode_str # task[r].current_mode_str)
            => LET a == task[r].current_mode_str
                   b == task'[r].current_mode_str
                   note == Text.ModeOpen \o ModeText(a) \o Text.Arrow \o ModeText(b)
                               \o Text.Close
                   reasoning == history'[Len(history')].llm_reasoning
               IN  /\ a # b
                   /\ Len(reasoning) >= Len(note)
                   /\ SubSeq(reasoning, Len(reasoning) - Len(note) + 1, Len(reasoning)) = note]_vars

\* C26, as stated: check_goal_in_a11y returns true exactly when, after
\* lowercasing the goal, splitting it on white space and dropping the stop
\* words and the tokens of at most 2 characters, at least one remaining
\* keyword is a substring of the lowercased window title, of the lowercased
\* URL (if any) or of some lowercased name of the tree; it returns false
\* when no keyword remains
C26_GoalCheckIsKeywordSearch ==
    (call.fn = "check_goal_in_a11y" /\ IsSome(call.output))
        => LET state == call.input.state
               tokens == split_whitespace(to_lowercase(call.input.goal))
               keywords == {tokens[i] : i \in {k \in DOMAIN tokens :
                                Len(tokens[k]) > 2 /\ tokens[k] \notin stop_words}}
               RECURSIVE names(_)
               names(tree) ==
                   IF tree[1] = "arr"
                   THEN UNION {names(tree[2][i]) : i \in DOMAIN tree[2]}
                   ELSE IF tree[1] = "obj"
                   THEN {tree[2].name[2]} \cup names(tree[2].children)
                   ELSE {}
               texts == {state.active_window} \cup names(state.accessibility_tree)
                            \cup (IF IsSome(state.url) THEN {Unwrap(state.url)} ELSE {})
           IN  Unwrap(call.output)
                   = (\E kw \in keywords : \E text \in texts : contains(to_lowercase(text), kw))

\* C27: for every tree whose roles are those the two drivers produce,
\* extract_interactables returns the first
\* max_elements (100), or all if fewer, of the nodes that satisfy (role in
\* the interactable set or focusable) and name non-empty and node id
\* non-empty, in depth-first pre-order: none reordered, duplicated or
\* dropped before the cap
C27_ListingIsCappedPreorderFilter ==
    (call.fn = "extract_interactables" /\ IsSome(call.output))
        => LET out == Unwrap(call.output)
               interactable == {<<"B", "u", "t", "t", "o", "n">>, <<"E", "d", "i", "t">>, <<"C", "o", "m", "b", "o", "B", "o", "x">>, <<"C", "h", "e", "c", "k", "B", "o", "x">>,
                                <<"R", "a", "d", "i", "o", "B", "u", "t", "t", "o", "n">>, <<"L", "i", "n", "k">>, <<"M", "e", "n", "u", "I", "t", "e", "m">>, <<"L", "i", "s", "t", "I", "t", "e", "m">>,
                                <<"T", "a", "b", "I", "t", "e", "m">>, <<"T", "r", "e", "e", "I", "t", "e", "m">>, <<"H", "y", "p", "e", "r", "l", "i", "n", "k">>, <<"S", "p", "l", "i", "t", "B", "u", "t", "t", "o", "n">>,
                                <<"M", "e", "n", "u", "B", "a", "r">>, <<"M", "e", "n", "u">>, <<"T", "o", "o", "l", "B", "a", "r">>}
               RECURSIVE preorder(_)
               RECURSIVE preorder_each(_, _, _)
               preorder_each(items, first, last) ==
                   IF first > last THEN <<>>
                   ELSE IF first = last THEN preorder(items[first])
                   ELSE preorder_each(items, first, (first + last) \div 2)
                            \o preorder_each(items, ((first + last) \div 2) + 1, last)
               preorder(tree) ==
                   IF tree[1] = "arr" THEN preorder_each(tree[2], 1, Len(tree[2]))
                   ELSE IF tree[1] = "obj"
                   THEN <<tree[2]>> \o (IF "children" \in DOMAIN tree[2]
                                        THEN preorder(tree[2].children) ELSE <<>>)
                   ELSE <<>>
               text(v) == IF v[1] = "str" THEN v[2] ELSE <<>>
               kept == SelectSeq(preorder(call.input),
                           LAMBDA n : /\ text(n.role) \in interactable \/ n.focusable[2]
                                      /\ text(n.name) # <<>>
                                      /\ text(n.node_id) # <<>>)
           IN  /\ Len(out) = (IF Len(kept) < max_elements THEN Len(kept) ELSE max_elements)
               /\ \A i \in 1..Len(out) :
                      /\ out[i].node_id = text(kept[i].node_id)
                      /\ out[i].role = text(kept[i].role)
                      /\ out[i].name = text(kept[i].name)
                      /\ out[i].focusable = kept[i].focusable[2]

\* C27, witness: a tree of more than 101 nodes of which the second is not
\* interactable: the listing holds 100 elements and the third node is its
\* second element
C27_CapReachedAfterDroppedNode ==
    /\ call.fn = "extract_interactables"
    /\ IsSome(call.output)
    /\ Len(call.input[2]) > max_elements + 1
    /\ Len(Unwrap(call.output)) = max_elements
    /\ Unwrap(call.output)[2].node_id = <<"3">>

\* C28, as stated: every node the browser driver's get_a11y_tree keeps for
\* its role (button, link, textbox, searchbox, combobox, checkbox, radio,
\* menuitem, tab, listitem) and that has a non-empty name and node id is in
\* the listing extract_interactables makes of the tree (the tree has fewer
\* nodes than the cap), focusable or not
C28_BrowserRolesAreListed ==
    (call.fn = "extract_interactables" /\ IsSome(call.output))
        => LET out == Unwrap(call.output)
               nodes == call.input[2]
               browser_roles == {<<"b", "u", "t", "t", "o", "n">>, <<"l", "i", "n", "k">>, <<"t", "e", "x", "t", "b", "o", "x">>, <<"s", "e", "a", "r", "c", "h", "b", "o", "x">>,
                                 <<"c", "o", "m", "b", "o", "b", "o", "x">>, <<"c", "h", "e", "c", "k", "b", "o", "x">>, <<"r", "a", "d", "i", "o">>, <<"m", "e", "n", "u", "i", "t", "e", "m">>,
                                 <<"t", "a", "b">>, <<"l", "i", "s", "t", "i", "t", "e", "m">>}
           IN  \A i \in 1..Len(nodes) :
                   (/\ Len(nodes) < max_elements
                    /\ nodes[i][2].role[2] \in browser_roles
                    /\ nodes[i][2].name # JNull /\ nodes[i][2].name[2] # <<>>
                    /\ nodes[i][2].node_id[2] # <<>>)
                       => \E j \in 1..Len(out) :
                              /\ out[j].node_id = nodes[i][2].node_id[2]
                              /\ out[j].role = nodes[i][2].role[2]
                              /\ out[j].focusable = nodes[i][2].focusable[2]

\* C29, as stated: the parent context of a listed element comes from its
\* nearest ancestor alone: the ancestor's name when that is non-empty and
\* at most short_name (30) characters long, else the ancestor's role when
\* non-empty, else Desktop; a root node gets Desktop
C29_ParentContextOfNearestAncestor ==
    (call.fn = "extract_interactables" /\ IsSome(call.output))
        => LET out == Unwrap(call.output)
               text(v) == IF v[1] = "str" THEN v[2] ELSE <<>>
               context(parent) ==
                   IF parent = None THEN <<"D", "e", "s", "k", "t", "o", "p">>
                   ELSE IF text(Unwrap(parent).name) # <<>>
                            /\ Len(text(Unwrap(parent).name)) <= short_name
                   THEN text(Unwrap(parent).name)
                   ELSE IF text(Unwrap(parent).role) # <<>> THEN text(Unwrap(parent).role)
                   ELSE <<"D", "e", "s", "k", "t", "o", "p">>
               \* the nodes in pre-order, each with the context of its parent
               RECURSIVE contexts(_, _)
               RECURSIVE contexts_each(_, _, _, _)
               contexts_each(items, first, last, parent) ==
                   IF first > last THEN <<>>
                   ELSE IF first = last THEN contexts(items[first], parent)
                   ELSE contexts_each(items, first, (first + last) \div 2, parent)
                            \o contexts_each(items, ((first + last) \div 2) + 1, last, parent)
               contexts(tree, parent) ==
                   IF tree[1] = "arr" THEN contexts_each(tree[2], 1, Len(tree[2]), parent)
                   ELSE IF tree[1] = "obj"
                   THEN <<[node_id |-> text(tree[2].node_id), ctx |-> context(parent)]>>
                            \o (IF "children" \in DOMAIN tree[2]
                                THEN contexts(tree[2].children, Some(tree[2])) ELSE <<>>)
                   ELSE <<>>
               all == contexts(call.input, None)
           IN  \A i \in 1..Len(out) :
                   \E k \in 1..Len(all) :
                       all[k].node_id = out[i].node_id /\ all[k].ctx = out[i].parent_context

\* C30, as stated: in the recent-actions section of format_history a line
\* carries the *** MODE: a -> b *** marker exactly when the mode of its
\* entry differs from the mode of the entry immediately before it in the
\* history; this holds for the oldest of the 5 displayed entries too when
\* the history has more than 5 entries
C30_MarkerIffModeDiffersFromPrevious ==
    (call.fn = "recent_actions" /\ IsSome(call.output) /\ IsSome(Unwrap(call.output)))
        => LET lines == Unwrap(Unwrap(call.output))
               h == call.input
               first == Len(h) - Len(lines)
           IN  /\ Len(lines) = (IF Len(h) < 5 THEN Len(h) ELSE 5)
               /\ \A i \in 1..Len(lines) :
                      LET k == first + i
                          marker == IF k > 1
                                    THEN <<" ", "*", "*", "*", " ", "M", "O", "D", "E", ":", " ">> \o ModeText(h[k - 1].mode) \o <<" ", "-", ">", " ">>
                                             \o ModeText(h[k].mode) \o <<" ", "*", "*", "*">>
                                    ELSE <<>>
                      IN  IF k > 1 /\ h[k - 1].mode # h[k].mode
                          THEN contains(lines[i], marker)
                          ELSE ~contains(lines[i], <<" ", "*", "*", "*", " ", "M", "O", "D", "E", ":", " ">>)


\* C31, as stated: in every history the loop produces, the goal text
\* (user_input) is present only on entries whose step_number is 1; every
\* entry with a larger step number, a complete entry included, has none
C31_UserInputOnlyOnStepOne ==
    \A i \in DOMAIN history :
        IsSome(history[i].user_input) => history[i].step_number = 1


\* C32, as stated: the browser dispatcher applies the same target-prefix
\* rules to every action kind that takes a target (click, double_click,
\* right_click, hover, type, clear): a target that starts with ax: is
\* resolved through the accessibility path, one that starts with xpath:
\* through the XPath path, any other non-empty target as a CSS selector;
\* an ax: or xpath: target is never handed to DOM.querySelector
C32_SamePrefixRulesForEveryKind ==
    (/\ call.fn = "targeted_action" /\ IsSome(call.output)
     /\ call.input.mode = "browser"
     /\ IsSome(as_str(call.input.target)) /\ Unwrap(as_str(call.input.target)) # <<>>
     /\ (call.input.action_type = "type" => IsSome(call.input.params)))
        => LET s == Unwrap(as_str(call.input.target))
               calls == Unwrap(call.output).calls
               expected == IF starts_with(s, Prefix.Ax) THEN <<"click_ax", slice(s, 3, Len(s))>>
                           ELSE IF starts_with(s, Prefix.Xpath)
                           THEN <<"find_by_xpath", slice(s, 6, Len(s))>>
                           ELSE <<"find_element", s>>
           IN  /\ calls # <<>>
               /\ calls[1] = expected
               /\ \A k \in DOMAIN calls :
                      calls[k][1] = "find_element"
                          => ~starts_with(calls[k][2], Prefix.Ax)
                             /\ ~starts_with(calls[k][2], Prefix.Xpath)


\* C33, as stated: in the desktop dispatcher a type action with a non-empty
\* target (a node id, name:X or coords:x,y) clicks that target before the
\* text is typed, a type action with an empty target types to the current
\* focus without any click, and the text is never typed when the click
\* before it failed
C33_TypeClicksItsTargetFirst ==
    (/\ call.fn = "targeted_action" /\ IsSome(call.output)
     /\ call.input.mode = "desktop" /\ call.input.action_type = "type"
     /\ IsSome(call.input.params) /\ IsSome(as_str(call.input.target)))
        => LET s == Unwrap(as_str(call.input.target))
               out == Unwrap(call.output)
               typed == {k \in DOMAIN out.calls : out.calls[k][1] = "type_text"}
               clicked == {k \in DOMAIN out.calls : out.calls[k][1] = "click"}
           IN  IF s = <<>>
               THEN clicked = {} /\ typed = {1} /\ IsOk(out.result)
               ELSE IF IsOk(out.result)
               THEN /\ Cardinality(typed) = 1
                    /\ \E c \in clicked : \A k \in typed : c < k
               ELSE typed = {}


\* C34, as stated: press_key_combo presses the modifiers in the given
\* order, presses and releases the main key, then releases the modifiers in
\* reverse order, so that whenever it returns, with Ok or with an error
\* (unknown key name, unknown modifier, refused input call), every modifier
\* it pressed has been released
C34_ModifiersReleasedOnReturn ==
    (call.fn = "press_key_combo" /\ IsSome(call.output))
        => LET out == Unwrap(call.output)
               ev == out.events
               downs(vk) == Cardinality({k \in DOMAIN ev : ev[k] = <<"down", vk>>})
               ups(vk) == Cardinality({k \in DOMAIN ev : ev[k] = <<"up", vk>>})
               n == Len(call.input.modifiers)
           IN  /\ \A k \in DOMAIN ev : downs(ev[k][2]) = ups(ev[k][2])
               /\ IsOk(out.result)
                      => /\ Len(ev) = 2 * n + 2
                         /\ \A i \in 1..n : /\ ev[i][1] = "down"
                                            /\ ev[2 * n + 3 - i] = <<"up", ev[i][2]>>
                         /\ ev[n + 1][1] = "down" /\ ev[n + 2] = <<"up", ev[n + 1][2]>>


\* C35, as stated: every search handle that find_by_xpath obtains from
\* DOM.performSearch is released with DOM.discardSearchResults before
\* find_by_xpath returns, on every path: with zero results it discards and
\* fails with 'XPath not found', and with results it discards after reading
\* the first one, also when reading the results fails
C35_SearchHandleAlwaysDiscarded ==
    (/\ call.fn = "find_by_xpath" /\ IsSome(call.output)
     /\ call.input.fail_at \notin 1..3 /\ IsSome(call.input.search.searchId))
        => LET out == Unwrap(call.output)
               id == call.input.search.searchId
               n == Len(out.calls)
           IN  /\ out.calls[n] = <<"DOM.discardSearchResults", id>>
               /\ (call.input.search.resultCount = 0 /\ call.input.fail_at = 0)
                      => out.result = Err(BrowserError.XPathNotFound)
               /\ call.input.search.resultCount > 0
                      => out.calls[n - 1] = <<"DOM.getSearchResults", id>>


\* C36, as stated: for every history, analyze_history reports
\* longest_success_streak equal to the length of the longest run of
\* consecutive successful entries, and current_streak equal to +N when the
\* history ends with a run of N successes and -N when it ends with a run
\* of N failures (0 for the empty history)
C36_StreaksAreRunLengths ==
    (call.fn = "analyze_history" /\ IsSome(call.output))
        => LET h == call.input
               out == Unwrap(call.output)
               n == Len(h)
               \* the entries a..b are all successful (ok) or all failed
               run(a, b, ok) == \A k \in a..b : h[k].success = ok
               runs == {b - a + 1 : <<a, b>> \in {p \in (1..n) \X (1..n) :
                                                      p[1] <= p[2] /\ run(p[1], p[2], TRUE)}}
               longest == IF runs = {} THEN 0 ELSE CHOOSE m \in runs : \A r \in runs : r <= m
               tail(ok) == CHOOSE m \in 0..n :
                               /\ run(n - m + 1, n, ok)
                               /\ (m < n => h[n - m].success # ok)
           IN  /\ out.longest_success_streak = longest
               /\ out.current_streak = (IF n = 0 THEN 0
                                        ELSE IF h[n].success THEN tail(TRUE)
                                        ELSE 0 - tail(FALSE))


\* C37, as stated: when approve_action(true) returns, with Ok or with Err,
\* the pending slot is empty, so that a later approve_action(true) without
\* a new execute_user_command fails with 'No pending action' and executes
\* nothing: the same approved action is never run by a second approval
C37_PendingEmptyOnReturn ==
    [][\A r \in Runs :
        (task[r].pc # "idle" /\ task'[r].pc = "idle" /\ euc.pc = "idle")
            => pending_action' = None]_vars


\* C38, as stated: a click, double_click, right_click or hover that the
\* desktop or the browser dispatcher reports as successful has synthesized
\* the pointer input at the resolved target; when the target cannot be
\* resolved (it is not a string, coords: is not of the form x,y, or the
\* element found by name or id has no bounds) the dispatcher returns an
\* error, so that an action that did nothing is never a successful step
C38_SuccessfulPointerActionActed ==
    (/\ call.fn = "targeted_action" /\ IsSome(call.output)
     /\ call.input.action_type \in PointerActions)
        => LET out == Unwrap(call.output)
               n == Len(out.calls)
           IN  IsOk(out.result)
                   => /\ n > 0
                      /\ out.calls[n][1] = call.input.action_type


\* C39, as stated: in one approve_action(true) run started on the empty
\* history, with no other command touching the history, the k-th history
\* entry has step_number k: step numbers are 1..n, consecutive and without
\* repeats, whatever mix of successes, exhausted retries and completion
\* entries occurs
C39_StepNumbersAreConsecutive ==
    \A k \in DOMAIN history : history[k].step_number = k


\* C39, witness: the run has returned and left a history that holds the
\* entry of a step whose retries were exhausted, the entry of a successful
\* step and, last, a completion entry
C39_MixedHistoryOfReturnedRun ==
    /\ task["r1"].pc = "idle" /\ task["r1"].result.kind = "Ok"
    /\ Len(history) >= 3
    /\ \E i, j \in DOMAIN history :
          /\ ~history[i].success /\ history[i].action.action_type = "click"
          /\ history[j].success /\ history[j].action.action_type \in {"click", "launch_browser"}
    /\ history[Len(history)].action.action_type \in {"complete", "smart_complete", "auto_complete"}
    /\ history[Len(history)].step_number = Len(history)


\* C40: provided every external call (mode probe, observation, driver
\* execution, model request) returns, approve_action(true) eventually
\* returns: it runs at most max_steps loop iterations, each with at most
\* max_retries_per_step execution attempts, and every step of the loop
\* moves forward in the order (iteration, attempt, stage of the iteration),
\* so that no path through the loop repeats without consuming one of the
\* two budgets
C40_ApproveActionReturns ==
    /\ [](/\ task["r1"].loop_iter <= max_steps
          /\ task["r1"].retry_count <= max_retries_per_step
          /\ task["r1"].pc = "execute"
                => task["r1"].loop_iter < max_steps /\ task["r1"].retry_count >= 1)
    /\ [][LET \* the place of a suspension point in the order of the loop
              place(u) ==
                  CASE u.pc = "detect_initial" -> 0
                    [] u.pc = "observe_initial" -> 1
                    [] u.pc = "execute" -> 2 + 20 * u.loop_iter + 2 * u.retry_count
                    [] u.pc = "retry_llm" -> 3 + 20 * u.loop_iter + 2 * u.retry_count
                    [] u.pc = "observe_fresh" -> 16 + 20 * u.loop_iter
                    [] u.pc = "detect_new_mode" -> 17 + 20 * u.loop_iter
                    [] u.pc \in {"observe_threshold", "observe_failed"} -> 18 + 20 * u.loop_iter
                    [] u.pc = "next_llm" -> 19 + 20 * u.loop_iter
                    [] OTHER -> 0
          IN  (task["r1"].pc # "idle" /\ task'["r1"].pc # "idle" /\ task'["r1"] # task["r1"])
                  => place(task'["r1"]) > place(task["r1"])]_vars
    /\ (task["r1"].pc # "idle") ~> (task["r1"].pc = "idle")

\* C40, witness: the invocation has returned after the last attempt of the
\* last iteration its budgets allow
C40_ReturnedAfterLastAttemptOfLastStep ==
    /\ task["r1"].pc = "idle"
    /\ task["r1"].result.kind = "Ok"
    /\ task["r1"].result.loop_iter = max_steps
    /\ Len(history) = max_steps
    /\ ~history[max_steps].success

====
